---------------------------- MODULE Spec2Model ----------------------------
(***************************************************************************)
(* CodeGraph: the chat / repository / graph client (frontend/src) together *)
(* with the query engine and graph store it talks to.  Text is a sequence  *)
(* of one-character strings, so that trim() is computed and not assumed.   *)
(***************************************************************************)
EXTENDS Integers, Sequences, FiniteSets, TLC

VARIABLES
    \* chatStore.ts
    messages, isLoading, error,
    \* ChatView.tsx: local state and the pending queryApi.ask
    input, askPc, askRequest, askReply, nextId, asked,
    \* repoStore.ts
    repositories, selectedRepo,
    \* Sidebar.tsx / AddRepoDialog.tsx: local state and the pending create
    showRepoDropdown, showAddDialog, url, branch, dlgIsLoading, dlgError,
    dlgPc, createRequest, createReply, created,
    \* the route shown by App.tsx
    route,
    \* GraphView.tsx: local state and the pending graphApi.get calls
    nodes, edges, stats, graphIsLoading, graphError, fetches,
    \* the engine: the graph store, the get_neighbors read in progress, the
    \* embedding index, the query being answered and the last indexing run
    graphStore, lookup, embeddingIndex, run, indexed,
    \* settingsStore.ts, and SettingsView's local state and pending health
    \* check
    provider, model, availableProviders, settingsIsLoading, healthPc

chatVars == <<messages, isLoading, error, input, askPc, askRequest, askReply,
              nextId, asked>>
repoVars == <<repositories, selectedRepo>>
dlgVars  == <<showRepoDropdown, showAddDialog, url, branch, dlgIsLoading,
              dlgError, dlgPc, createRequest, createReply, created>>
graphVars == <<route, nodes, edges, stats, graphIsLoading, graphError,
               fetches>>
serverVars == <<graphStore, lookup, embeddingIndex, run, indexed>>
settingsVars == <<provider, model, availableProviders, settingsIsLoading,
                  healthPc>>
vars     == <<chatVars, repoVars, dlgVars, graphVars, serverVars,
              settingsVars>>

---------------------------------------------------------------------------
(* Bounds of the model *)

MaxQueries == 2
MaxRepos == 2
MaxCreates == 2
MaxFetches == 2
\* the hop budget and the frontier width of the reasoning loop
H == 2
W == 2
\* the largest depth of a neighbor lookup
MaxDepth == 2
MaxNodes == 6

---------------------------------------------------------------------------
(* JavaScript values *)

\* null of a `string | null` field (chat error, dialog error)
Null == "null"
\* null of `Repository | null`
NullRepo == [id |-> "null"]
\* no request / no reply in flight
None == [kind |-> "none"]

RECURSIVE TrimStart(_)
TrimStart(s) ==
    IF s = <<>> THEN s
    ELSE IF Head(s) = " " THEN TrimStart(Tail(s)) ELSE s

RECURSIVE TrimEnd(_)
TrimEnd(s) ==
    IF s = <<>> THEN s
    ELSE IF s[Len(s)] = " " THEN TrimEnd(SubSeq(s, 1, Len(s) - 1)) ELSE s

\* String.prototype.trim
Trim(s) == TrimEnd(TrimStart(s))

\* what the user can type into the chat textarea
Inputs == { <<>>, <<" ">>, <<" ", "a", " ">> }

---------------------------------------------------------------------------
(* The HTTP replies of the API, as fetch hands them to ApiClient.request *)

Citation1 == [file_path |-> "a.py", start_line |-> 1, end_line |-> 5,
              content |-> "foo", node_type |-> "function", node_name |-> "foo"]
Citation2 == [file_path |-> "a.py", start_line |-> 7, end_line |-> 10,
              content |-> "bar", node_type |-> "function", node_name |-> "bar"]

Step1 == [step_number |-> 1, action |-> "seeded from similarity search",
          node_visited |-> "e1"]
Step2 == [step_number |-> 2, action |-> "expanded via calls from e1",
          node_visited |-> "e2"]

\* QueryResponse bodies: one that could not be grounded (no citation), and
\* two that cite the same entities in the two possible orders; confidence is
\* in hundredths
QueryResponses ==
    { [answer |-> <<"n">>, citations |-> <<>>, reasoning_steps |-> <<>>,
       confidence |-> 0],
      [answer |-> <<"x">>, citations |-> <<Citation1, Citation2>>,
       reasoning_steps |-> <<Step1, Step2>>, confidence |-> 100],
      [answer |-> <<"y">>, citations |-> <<Citation2, Citation1>>,
       reasoning_steps |-> <<Step2, Step1>>, confidence |-> 100] }

\* the `detail` member of an error body
Undefined   == [type |-> "undefined"]
DetailEmpty == [type |-> "string", value |-> ""]
DetailText  == [type |-> "string", value |-> "Repository not ready"]
DetailProv  == [type |-> "string", value |-> "Provider error"]
DetailList  == [type |-> "array"]

\* error bodies: not JSON at all, or a JSON object; an object may carry the
\* reasoning steps completed before the failure
ErrorBodies ==
    { [json |-> "invalid"] }
    \cup { [json |-> "object", detail |-> d, reasoning_steps |-> <<>>] :
             d \in {Undefined, DetailEmpty, DetailText, DetailList} }
    \cup { [json |-> "object", detail |-> DetailProv,
            reasoning_steps |-> <<Step1>>] }

ErrorStatuses == {404, 503}

\* a reply to POST /queries: fetch itself rejects, or resolves with a status
\* and a body
QueryReplies ==
    { [kind |-> "network"] }
    \cup { [kind |-> "http", ok |-> TRUE, status |-> 200,
            body |-> [json |-> "object", data |-> r]] : r \in QueryResponses }
    \cup { [kind |-> "http", ok |-> TRUE, status |-> 200,
            body |-> [json |-> "invalid"]] }
    \cup { [kind |-> "http", ok |-> FALSE, status |-> s, body |-> b] :
             s \in ErrorStatuses, b \in ErrorBodies }

---------------------------------------------------------------------------
(* api/client.ts *)

\* JavaScript truthiness of a `detail`
Truthy(v) ==
    CASE v.type = "undefined" -> FALSE
      [] v.type = "string"    -> v.value # ""
      [] v.type = "array"     -> TRUE

\* String(v), which `new Error(v)` applies to its argument
ToStringJS(v) ==
    CASE v.type = "string" -> v.value
      [] v.type = "array"  -> "[object Object]"
      [] OTHER             -> "undefined"

FetchFailedMessage == "Failed to fetch"
JsonSyntaxMessage  == "Unexpected token < in JSON"

Throw(msg)  == [kind |-> "throw", isError |-> TRUE, message |-> msg]
Return(d)   == [kind |-> "return", data |-> d]

\* response.json().catch(() => ({})) of the error path
ErrorJson(body) ==
    IF body.json = "invalid" THEN [json |-> "object", detail |-> Undefined]
    ELSE body

\* request with the error body never read
request_StatusOnly(reply) ==
    IF reply.kind = "network" THEN Throw(FetchFailedMessage)
    ELSE IF ~reply.ok THEN Throw("API error: " \o ToString(reply.status))
    ELSE IF reply.body.json = "invalid" THEN Throw(JsonSyntaxMessage)
    ELSE Return(reply.body.data)

\* ApiClient.request: what the promise settles to for a reply
request(reply) ==
    IF reply.kind = "network" THEN Throw(FetchFailedMessage)
    ELSE IF ~reply.ok THEN
        LET err == ErrorJson(reply.body) IN
        IF Truthy(err.detail) THEN Throw(ToStringJS(err.detail))
        ELSE Throw("API error: " \o ToString(reply.status))
    ELSE IF reply.body.json = "invalid" THEN Throw(JsonSyntaxMessage)
    ELSE Return(reply.body.data)

---------------------------------------------------------------------------
(* stores/chatStore.ts *)

\* addMessage that puts the new message first
addMessage_Prepends(msgs, message, id) ==
    << [f \in DOMAIN message \cup {"id", "timestamp"} |->
          CASE f = "id"        -> id
            [] f = "timestamp" -> id
            [] OTHER           -> message[f]] >> \o msgs

\* addMessage: append the message with a fresh id and the current time
addMessage(msgs, message, id) ==
    Append(msgs, [f \in DOMAIN message \cup {"id", "timestamp"} |->
                    CASE f = "id"        -> id
                      [] f = "timestamp" -> id
                      [] OTHER           -> message[f]])

\* updateLastAssistantMessage that leaves the placeholder alone when the
\* response cites nothing
updateLastAssistantMessage_SkipsUncited(msgs, response) ==
    LET lastIdx == Len(msgs) - 1 IN
    IF lastIdx >= 0 /\ msgs[lastIdx + 1].role = "assistant"
       /\ response.citations # <<>>
    THEN [msgs EXCEPT ![lastIdx + 1] =
            [f \in DOMAIN msgs[lastIdx + 1]
                   \cup {"content", "citations", "reasoning_steps"} |->
                CASE f = "content"         -> response.answer
                  [] f = "citations"       -> response.citations
                  [] f = "reasoning_steps" -> response.reasoning_steps
                  [] OTHER                 -> msgs[lastIdx + 1][f]]]
    ELSE msgs

\* updateLastAssistantMessage that does not store the reasoning steps
updateLastAssistantMessage_DropsSteps(msgs, response) ==
    LET lastIdx == Len(msgs) - 1 IN
    IF lastIdx >= 0 /\ msgs[lastIdx + 1].role = "assistant"
    THEN [msgs EXCEPT ![lastIdx + 1] =
            [f \in DOMAIN msgs[lastIdx + 1] \cup {"content", "citations"} |->
                CASE f = "content"         -> response.answer
                  [] f = "citations"       -> response.citations
                  [] OTHER                 -> msgs[lastIdx + 1][f]]]
    ELSE msgs

\* updateLastAssistantMessage that looks for the last assistant message
\* anywhere in the list
updateLastAssistantMessage_SearchesBack(msgs, response) ==
    LET found == { i \in 1..Len(msgs) : msgs[i].role = "assistant" } IN
    IF found # {}
    THEN LET at == CHOOSE i \in found : \A j \in found : j <= i IN
         [msgs EXCEPT ![at] =
            [f \in DOMAIN msgs[at]
                   \cup {"content", "citations", "reasoning_steps"} |->
                CASE f = "content"         -> response.answer
                  [] f = "citations"       -> response.citations
                  [] f = "reasoning_steps" -> response.reasoning_steps
                  [] OTHER                 -> msgs[at][f]]]
    ELSE msgs

\* updateLastAssistantMessage: overwrite content, citations and
\* reasoning_steps of the last message when it is an assistant message
updateLastAssistantMessage(msgs, response) ==
    LET lastIdx == Len(msgs) - 1 IN
    IF lastIdx >= 0 /\ msgs[lastIdx + 1].role = "assistant"
    THEN [msgs EXCEPT ![lastIdx + 1] =
            [f \in DOMAIN msgs[lastIdx + 1]
                   \cup {"content", "citations", "reasoning_steps"} |->
                CASE f = "content"         -> response.answer
                  [] f = "citations"       -> response.citations
                  [] f = "reasoning_steps" -> response.reasoning_steps
                  [] OTHER                 -> msgs[lastIdx + 1][f]]]
    ELSE msgs

---------------------------------------------------------------------------
(* ChatMessage component: what is shown for a message *)

\* CitationCards labelled with the array index itself
CitationCards_ZeroBased(message) ==
    IF message.role # "user" /\ "citations" \in DOMAIN message
    THEN [k \in 1..Len(message.citations) |->
            LET idx == k - 1 IN
            [index |-> idx, citation |-> message.citations[idx + 1]]]
    ELSE <<>>

\* the citation cards of a message, in display order, each with its label
CitationCards(message) ==
    IF message.role # "user" /\ "citations" \in DOMAIN message
    THEN [k \in 1..Len(message.citations) |->
            LET idx == k - 1 IN
            [index |-> idx + 1, citation |-> message.citations[idx + 1]]]
    ELSE <<>>

\* ReasoningStepCards with the newest step on top
ReasoningStepCards_Reversed(message) ==
    IF message.role # "user" /\ "reasoning_steps" \in DOMAIN message
    THEN [k \in 1..Len(message.reasoning_steps) |->
            message.reasoning_steps[Len(message.reasoning_steps) + 1 - k]]
    ELSE <<>>

\* the reasoning steps shown for a message, in display order
ReasoningStepCards(message) ==
    IF message.role # "user" /\ "reasoning_steps" \in DOMAIN message
    THEN message.reasoning_steps
    ELSE <<>>

\* ReasoningStepCard: what is shown for one step
ReasoningStepCard(step) ==
    [label |-> "Step " \o ToString(step.step_number) \o ":",
     action |-> step.action,
     node |-> IF "node_visited" \in DOMAIN step THEN <<step.node_visited>>
              ELSE <<>>]

---------------------------------------------------------------------------
(* components/ChatView.tsx *)

\* onChange of the textarea, which is disabled without a selected repository
SetInput(v) ==
    /\ selectedRepo # NullRepo
    /\ v # input
    /\ input' = v
    /\ UNCHANGED <<messages, isLoading, error, askPc, askRequest, askReply,
                   nextId, asked>>
    /\ UNCHANGED <<repoVars, dlgVars, graphVars, serverVars, settingsVars>>

\* handleSubmit ignores the event
SubmitIgnored ==
    Trim(input) = <<>> \/ isLoading \/ selectedRepo = NullRepo

\* HandleSubmit that does not look at isLoading
HandleSubmit_NoLoadingGuard ==
    /\ Trim(input) # <<>>
    /\ selectedRepo # NullRepo
    /\ asked < MaxQueries
    /\ LET question == Trim(input)
           withUser == addMessage(messages,
                                  [role |-> "user", content |-> question],
                                  nextId)
       IN /\ input' = <<>>
          /\ error' = Null
          /\ messages' = addMessage(withUser,
                                    [role |-> "assistant", content |-> <<>>],
                                    nextId + 1)
          /\ askRequest' = [kind |-> "ask", repository_id |-> selectedRepo.id,
                            question |-> question]
    /\ nextId' = nextId + 2
    /\ isLoading' = TRUE
    /\ askPc' = "awaiting"
    /\ asked' = asked + 1
    /\ UNCHANGED askReply
    /\ UNCHANGED <<repoVars, dlgVars, graphVars, serverVars, settingsVars>>

\* handleSubmit up to the await of queryApi.ask
HandleSubmit ==
    /\ ~SubmitIgnored
    /\ asked < MaxQueries
    /\ LET question == Trim(input)
           withUser == addMessage(messages,
                                  [role |-> "user", content |-> question],
                                  nextId)
       IN /\ input' = <<>>
          /\ error' = Null
          /\ messages' = addMessage(withUser,
                                    [role |-> "assistant", content |-> <<>>],
                                    nextId + 1)
          /\ askRequest' = [kind |-> "ask", repository_id |-> selectedRepo.id,
                            question |-> question]
    /\ nextId' = nextId + 2
    /\ isLoading' = TRUE
    /\ askPc' = "awaiting"
    /\ asked' = asked + 1
    /\ UNCHANGED askReply
    /\ UNCHANGED <<repoVars, dlgVars, graphVars, serverVars, settingsVars>>

\* the API answers the pending POST /queries
QueryReply(r) ==
    /\ askPc = "awaiting"
    /\ askReply' = r
    /\ askPc' = "replied"
    /\ UNCHANGED <<messages, isLoading, error, input, askRequest, nextId,
                   asked>>
    /\ UNCHANGED <<repoVars, dlgVars, graphVars, serverVars, settingsVars>>

\* AskResolved without the finally block
AskResolved_NoFinally ==
    /\ askPc = "replied"
    /\ request(askReply).kind = "return"
    /\ messages' = updateLastAssistantMessage(messages, request(askReply).data)
    /\ askPc' = "idle"
    /\ askRequest' = None
    /\ askReply' = None
    /\ UNCHANGED <<isLoading, error, input, nextId, asked>>
    /\ UNCHANGED <<repoVars, dlgVars, graphVars, serverVars, settingsVars>>

\* handleSubmit after the await, try branch, then finally
AskResolved ==
    /\ askPc = "replied"
    /\ request(askReply).kind = "return"
    /\ messages' = updateLastAssistantMessage(messages, request(askReply).data)
    /\ isLoading' = FALSE
    /\ askPc' = "idle"
    /\ askRequest' = None
    /\ askReply' = None
    /\ UNCHANGED <<error, input, nextId, asked>>
    /\ UNCHANGED <<repoVars, dlgVars, graphVars, serverVars, settingsVars>>

\* AskRejected without the finally block
AskRejected_NoFinally ==
    /\ askPc = "replied"
    /\ request(askReply).kind = "throw"
    /\ LET err == request(askReply) IN
       error' = IF err.isError THEN err.message ELSE "Failed to get response"
    /\ askPc' = "idle"
    /\ askRequest' = None
    /\ askReply' = None
    /\ UNCHANGED <<messages, isLoading, input, nextId, asked>>
    /\ UNCHANGED <<repoVars, dlgVars, graphVars, serverVars, settingsVars>>

\* AskRejected that also removes the placeholder of the failed query
AskRejected_DropsPlaceholder ==
    /\ askPc = "replied"
    /\ request(askReply).kind = "throw"
    /\ LET err == request(askReply) IN
       error' = IF err.isError THEN err.message ELSE "Failed to get response"
    /\ messages' = SubSeq(messages, 1, Len(messages) - 1)
    /\ isLoading' = FALSE
    /\ askPc' = "idle"
    /\ askRequest' = None
    /\ askReply' = None
    /\ UNCHANGED <<input, nextId, asked>>
    /\ UNCHANGED <<repoVars, dlgVars, graphVars, serverVars, settingsVars>>

\* AskRejected that also writes the failure into the placeholder
AskRejected_WritesError ==
    /\ askPc = "replied"
    /\ request(askReply).kind = "throw"
    /\ LET err == request(askReply) IN
       error' = IF err.isError THEN err.message ELSE "Failed to get response"
    /\ messages' = [messages EXCEPT ![Len(messages)].content = <<"!">>]
    /\ isLoading' = FALSE
    /\ askPc' = "idle"
    /\ askRequest' = None
    /\ askReply' = None
    /\ UNCHANGED <<input, nextId, asked>>
    /\ UNCHANGED <<repoVars, dlgVars, graphVars, serverVars, settingsVars>>

\* handleSubmit after the await, catch branch, then finally
AskRejected ==
    /\ askPc = "replied"
    /\ request(askReply).kind = "throw"
    /\ LET err == request(askReply) IN
       error' = IF err.isError THEN err.message ELSE "Failed to get response"
    /\ isLoading' = FALSE
    /\ askPc' = "idle"
    /\ askRequest' = None
    /\ askReply' = None
    /\ UNCHANGED <<messages, input, nextId, asked>>
    /\ UNCHANGED <<repoVars, dlgVars, graphVars, serverVars, settingsVars>>

---------------------------------------------------------------------------
(* components/GraphView.tsx *)

GridColumns == 4
ColumnWidth == 250
RowHeight == 120
GroupGap == 80

\* the initial `stats`, an object without keys
EmptyStats == [key \in {} |-> 0]

\* nodeColors[type] || '#6b7280'
nodeColors(type) ==
    CASE type = "module"   -> "#3b82f6"
      [] type = "class"    -> "#8b5cf6"
      [] type = "function" -> "#10b981"
      [] type = "method"   -> "#14b8a6"
      [] type = "variable" -> "#f59e0b"
      [] OTHER             -> "#6b7280"

\* the keys of nodesByType in Object.entries order: the node types in order
\* of first appearance
TypesInOrder(graphNodes) ==
    LET F[i \in 0..Len(graphNodes)] ==
            IF i = 0 THEN <<>>
            ELSE IF \E j \in 1..Len(F[i - 1]) :
                       F[i - 1][j] = graphNodes[i].type
                 THEN F[i - 1]
                 ELSE Append(F[i - 1], graphNodes[i].type)
    IN F[Len(graphNodes)]

\* nodesByType[type]
nodesByType(graphNodes, type) ==
    SelectSeq(graphNodes, LAMBDA node : node.type = type)

\* Math.ceil(a / b) for a >= 0, b > 0
Ceil(a, b) == (a + b - 1) \div b

\* LayoutFrom with the rendered node named after its place in its group
RECURSIVE LayoutFrom_GroupIndexIds(_, _, _, _)
LayoutFrom_GroupIndexIds(graphNodes, types, k, yOffset) ==
    IF k > Len(types) THEN <<>>
    ELSE
        LET typeNodes == nodesByType(graphNodes, types[k])
            placed ==
                [i \in 1..Len(typeNodes) |->
                    LET idx == i - 1 IN
                    [id |-> ToString(idx),
                     position |->
                        [x |-> (idx % GridColumns) * ColumnWidth,
                         y |-> yOffset + (idx \div GridColumns) * RowHeight],
                     data |-> typeNodes[i],
                     border |-> nodeColors(types[k])]]
        IN placed \o LayoutFrom_GroupIndexIds(graphNodes, types, k + 1,
                                yOffset
                                + Ceil(Len(typeNodes), GridColumns) * RowHeight
                                + GroupGap)

\* LayoutFrom that starts every group at the same height
RECURSIVE LayoutFrom_SameOffset(_, _, _, _)
LayoutFrom_SameOffset(graphNodes, types, k, yOffset) ==
    IF k > Len(types) THEN <<>>
    ELSE
        LET typeNodes == nodesByType(graphNodes, types[k])
            placed ==
                [i \in 1..Len(typeNodes) |->
                    LET idx == i - 1 IN
                    [id |-> typeNodes[i].id,
                     position |->
                        [x |-> (idx % GridColumns) * ColumnWidth,
                         y |-> yOffset + (idx \div GridColumns) * RowHeight],
                     data |-> typeNodes[i],
                     border |-> nodeColors(types[k])]]
        IN placed \o LayoutFrom_SameOffset(graphNodes, types, k + 1,
                                           yOffset)

\* the forEach over Object.entries(nodesByType), from the k-th type on
RECURSIVE LayoutFrom(_, _, _, _)
LayoutFrom(graphNodes, types, k, yOffset) ==
    IF k > Len(types) THEN <<>>
    ELSE
        LET typeNodes == nodesByType(graphNodes, types[k])
            placed ==
                [i \in 1..Len(typeNodes) |->
                    LET idx == i - 1 IN
                    [id |-> typeNodes[i].id,
                     position |->
                        [x |-> (idx % GridColumns) * ColumnWidth,
                         y |-> yOffset + (idx \div GridColumns) * RowHeight],
                     data |-> typeNodes[i],
                     border |-> nodeColors(types[k])]]
        IN placed \o LayoutFrom(graphNodes, types, k + 1,
                                yOffset
                                + Ceil(Len(typeNodes), GridColumns) * RowHeight
                                + GroupGap)

\* transformToReactFlow that leaves the contains edges out
transformToReactFlow_SkipsContains(graphData) ==
    LET kept == SelectSeq(graphData.edges,
                          LAMBDA edge : edge.type # "contains") IN
    [nodes |-> LayoutFrom(graphData.nodes, TypesInOrder(graphData.nodes), 1, 0),
     edges |-> [k \in 1..Len(kept) |->
                  LET idx == k - 1 IN
                  [id |-> "e-" \o ToString(idx),
                   source |-> kept[k].source,
                   target |-> kept[k].target,
                   label |-> kept[k].type,
                   animated |-> kept[k].type = "calls"]]]

\* transformToReactFlow: the React Flow nodes, grouped by type on a grid,
\* and one React Flow edge per edge of the graph data
transformToReactFlow(graphData) ==
    [nodes |-> LayoutFrom(graphData.nodes, TypesInOrder(graphData.nodes), 1, 0),
     edges |-> [k \in 1..Len(graphData.edges) |->
                  LET idx == k - 1 IN
                  [id |-> "e-" \o ToString(idx),
                   source |-> graphData.edges[k].source,
                   target |-> graphData.edges[k].target,
                   label |-> graphData.edges[k].type,
                   animated |-> graphData.edges[k].type = "calls"]]]

\* a GET /graph/<id> on its way
NewFetch(repositoryId) ==
    [repository_id |-> repositoryId, phase |-> "sent", snapshot |-> None,
     nodes |-> <<>>, reply |-> None]

\* fetchGraph that asks for the graph of any selected repository
fetchGraph_AnyStatus(repo) ==
    IF repo = NullRepo
    THEN UNCHANGED <<nodes, edges, stats, graphIsLoading, graphError, fetches>>
    ELSE /\ Len(fetches) < MaxFetches
         /\ graphIsLoading' = TRUE
         /\ graphError' = Null
         /\ fetches' = Append(fetches, NewFetch(repo.id))
         /\ UNCHANGED <<nodes, edges, stats>>

\* fetchGraph up to the await of graphApi.get
fetchGraph(repo) ==
    IF repo = NullRepo \/ repo.status # "ready"
    THEN UNCHANGED <<nodes, edges, stats, graphIsLoading, graphError, fetches>>
    ELSE /\ Len(fetches) < MaxFetches
         /\ graphIsLoading' = TRUE
         /\ graphError' = Null
         /\ fetches' = Append(fetches, NewFetch(repo.id))
         /\ UNCHANGED <<nodes, edges, stats>>

\* what GraphView returns: the invitation to select a repository, the wait
\* for the indexing, or the graph with its overlays
GraphViewRender(repo) ==
    IF repo = NullRepo THEN [view |-> "select"]
    ELSE IF repo.status # "ready" THEN [view |-> "waiting"]
    ELSE [view |-> "graph", nodes |-> nodes, edges |-> edges,
          stats |-> stats, isLoading |-> graphIsLoading,
          error |-> graphError]

\* useEffect(() => { fetchGraph() }, [fetchGraph]) of a mounted GraphView,
\* when the selected repository becomes repo
GraphViewEffect(repo) ==
    IF route = "/graph" THEN fetchGraph(repo)
    ELSE UNCHANGED <<nodes, edges, stats, graphIsLoading, graphError, fetches>>

---------------------------------------------------------------------------
(* stores/repoStore.ts *)

addRepository(repos, repo) == Append(repos, repo)

selectRepo(repo) == repo

\* the repositories the API knows
Repositories ==
    { [id |-> "r1", url |-> <<"u">>, branch |-> "main", status |-> "ready"],
      [id |-> "r2", url |-> <<"v">>, branch |-> "dev", status |-> "pending"] }

\* useRepoStore.addRepository(repo)
AddRepository(repo) ==
    /\ Len(repositories) < MaxRepos
    /\ repositories' = addRepository(repositories, repo)
    /\ UNCHANGED selectedRepo
    /\ UNCHANGED <<chatVars, dlgVars, graphVars, serverVars, settingsVars>>

\* useRepoStore.selectRepo(repo)
SelectRepo(repo) ==
    /\ repo # selectedRepo
    /\ selectedRepo' = selectRepo(repo)
    /\ GraphViewEffect(repo)
    /\ UNCHANGED repositories
    /\ UNCHANGED <<chatVars, dlgVars, route, serverVars, settingsVars>>

setRepositories(repos) == repos

\* { ...r, ...updates }
Spread(r, updates) ==
    [k \in DOMAIN r \cup DOMAIN updates |->
        IF k \in DOMAIN updates THEN updates[k] ELSE r[k]]

\* the list of updateRepository
updateRepository(repos, id, updates) ==
    [i \in 1..Len(repos) |->
        IF repos[i].id = id THEN Spread(repos[i], updates) ELSE repos[i]]

\* the selection of updateRepository; selectedRepo?.id of null is undefined
updateSelected(selected, id, updates) ==
    IF selected # NullRepo /\ selected.id = id
    THEN Spread(selected, updates) ELSE selected

\* the list of removeRepository
removeRepository(repos, id) ==
    SelectSeq(repos, LAMBDA r : r.id # id)

\* the selection of removeRepository
removeSelected(selected, id) ==
    IF selected # NullRepo /\ selected.id = id THEN NullRepo ELSE selected

\* the Partial<Repository> values updateRepository is handed
Updates ==
    { [status |-> "ready"], [status |-> "error"],
      [branch |-> "dev", status |-> "indexing"] }

\* the lists setRepositories is handed
RepositoryLists ==
    UNION { [1..n -> Repositories] : n \in 0..MaxRepos }

\* useRepoStore.setRepositories(repos)
SetRepositories(repos) ==
    /\ repos # repositories
    /\ repositories' = setRepositories(repos)
    /\ UNCHANGED selectedRepo
    /\ UNCHANGED <<chatVars, dlgVars, graphVars, serverVars, settingsVars>>

\* useRepoStore.updateRepository(id, updates); a mounted GraphView runs its
\* effect when the selected repository object changes
UpdateRepository(id, updates) ==
    /\ repositories' = updateRepository(repositories, id, updates)
    /\ selectedRepo' = updateSelected(selectedRepo, id, updates)
    /\ <<repositories', selectedRepo'>> # <<repositories, selectedRepo>>
    /\ IF selectedRepo' # selectedRepo THEN GraphViewEffect(selectedRepo')
       ELSE UNCHANGED <<nodes, edges, stats, graphIsLoading, graphError,
                        fetches>>
    /\ UNCHANGED <<chatVars, dlgVars, route, serverVars, settingsVars>>

\* useRepoStore.removeRepository(id)
RemoveRepository(id) ==
    /\ repositories' = removeRepository(repositories, id)
    /\ selectedRepo' = removeSelected(selectedRepo, id)
    /\ <<repositories', selectedRepo'>> # <<repositories, selectedRepo>>
    /\ IF selectedRepo' # selectedRepo THEN GraphViewEffect(selectedRepo')
       ELSE UNCHANGED <<nodes, edges, stats, graphIsLoading, graphError,
                        fetches>>
    /\ UNCHANGED <<chatVars, dlgVars, route, serverVars, settingsVars>>

\* useRepoStore.selectRepo(repositories[i]): a repository taken from the list
SelectListed(i) ==
    /\ i \in 1..Len(repositories)
    /\ SelectRepo(repositories[i])

---------------------------------------------------------------------------
(* components/Sidebar.tsx and components/AddRepoDialog.tsx *)

Statuses == {"pending", "cloning", "indexing", "ready", "error"}
RepoIds == <<"r1", "r2", "r3">>
Urls == { <<>>, <<" ">>, <<"u">> }
Branches == { "main", "dev" }

\* the repository selector button
ToggleRepoDropdown ==
    /\ showRepoDropdown' = ~showRepoDropdown
    /\ UNCHANGED <<showAddDialog, url, branch, dlgIsLoading, dlgError, dlgPc,
                   createRequest, createReply, created>>
    /\ UNCHANGED <<chatVars, repoVars, graphVars, serverVars, settingsVars>>

\* a repository entry of the dropdown
SelectRepoClick(i) ==
    /\ showRepoDropdown
    /\ i \in 1..Len(repositories)
    /\ selectedRepo' = selectRepo(repositories[i])
    /\ IF repositories[i] # selectedRepo
       THEN GraphViewEffect(repositories[i])
       ELSE UNCHANGED <<nodes, edges, stats, graphIsLoading, graphError,
                        fetches>>
    /\ showRepoDropdown' = FALSE
    /\ UNCHANGED repositories
    /\ UNCHANGED <<showAddDialog, url, branch, dlgIsLoading, dlgError, dlgPc,
                   createRequest, createReply, created>>
    /\ UNCHANGED <<chatVars, route, serverVars, settingsVars>>

\* the "Add repository" entry of the dropdown
OpenAddDialog ==
    /\ showRepoDropdown
    /\ showRepoDropdown' = FALSE
    /\ showAddDialog' = TRUE
    /\ UNCHANGED <<url, branch, dlgIsLoading, dlgError, dlgPc, createRequest,
                   createReply, created>>
    /\ UNCHANGED <<chatVars, repoVars, graphVars, serverVars, settingsVars>>

\* backdrop, X and Cancel of the dialog
CloseAddDialog ==
    /\ showAddDialog
    /\ showAddDialog' = FALSE
    /\ UNCHANGED <<showRepoDropdown, url, branch, dlgIsLoading, dlgError,
                   dlgPc, createRequest, createReply, created>>
    /\ UNCHANGED <<chatVars, repoVars, graphVars, serverVars, settingsVars>>

SetUrl(u) ==
    /\ showAddDialog
    /\ u # url
    /\ url' = u
    /\ UNCHANGED <<showRepoDropdown, showAddDialog, branch, dlgIsLoading,
                   dlgError, dlgPc, createRequest, createReply, created>>
    /\ UNCHANGED <<chatVars, repoVars, graphVars, serverVars, settingsVars>>

SetBranch(b) ==
    /\ showAddDialog
    /\ b # branch
    /\ branch' = b
    /\ UNCHANGED <<showRepoDropdown, showAddDialog, url, dlgIsLoading,
                   dlgError, dlgPc, createRequest, createReply, created>>
    /\ UNCHANGED <<chatVars, repoVars, graphVars, serverVars, settingsVars>>

\* AddRepoDialog.handleSubmit with a blank url: the early return
AddRepoSubmitBlank ==
    /\ showAddDialog
    /\ ~dlgIsLoading
    /\ Trim(url) = <<>>
    /\ UNCHANGED <<chatVars, repoVars, dlgVars, graphVars, serverVars, settingsVars>>

\* AddRepoDialog.handleSubmit up to the await of repositoryApi.create; the
\* submit button is disabled while a create is pending
AddRepoSubmit ==
    /\ showAddDialog
    /\ ~dlgIsLoading
    /\ Trim(url) # <<>>
    /\ created < MaxCreates
    /\ dlgIsLoading' = TRUE
    /\ dlgError' = Null
    /\ createRequest' = [kind |-> "create", url |-> url, branch |-> branch]
    /\ dlgPc' = "awaiting"
    /\ created' = created + 1
    /\ UNCHANGED <<showRepoDropdown, showAddDialog, url, branch, createReply>>
    /\ UNCHANGED <<chatVars, repoVars, graphVars, serverVars, settingsVars>>

\* a reply to POST /repositories
CreateReplies(req, n) ==
    { [kind |-> "network"] }
    \cup { [kind |-> "http", ok |-> TRUE, status |-> 200,
            body |-> [json |-> "object",
                      data |-> [id |-> RepoIds[n], url |-> req.url,
                                branch |-> req.branch, status |-> s]]] :
             s \in Statuses }
    \cup { [kind |-> "http", ok |-> FALSE, status |-> 503,
            body |-> [json |-> "object", detail |-> Undefined,
                      reasoning_steps |-> <<>>]] }

\* the API answers the pending POST /repositories
CreateReply ==
    /\ dlgPc = "awaiting"
    /\ \E r \in CreateReplies(createRequest, created) : createReply' = r
    /\ dlgPc' = "replied"
    /\ UNCHANGED <<showRepoDropdown, showAddDialog, url, branch, dlgIsLoading,
                   dlgError, createRequest, created>>
    /\ UNCHANGED <<chatVars, repoVars, graphVars, serverVars, settingsVars>>

\* AddRepoDialog.handleSubmit after the await, try branch, then finally
AddRepoResolved ==
    /\ dlgPc = "replied"
    /\ request(createReply).kind = "return"
    /\ LET repo == request(createReply).data IN
       /\ repositories' = addRepository(repositories, repo)
       /\ selectedRepo' = selectRepo(repo)
       /\ GraphViewEffect(repo)
    /\ showAddDialog' = FALSE
    /\ url' = <<>>
    /\ branch' = "main"
    /\ dlgIsLoading' = FALSE
    /\ dlgPc' = "idle"
    /\ createRequest' = None
    /\ createReply' = None
    /\ UNCHANGED <<showRepoDropdown, dlgError, created>>
    /\ UNCHANGED <<chatVars, route, serverVars, settingsVars>>

\* AddRepoRejected that also closes the dialog and resets its fields
AddRepoRejected_ClosesDialog ==
    /\ dlgPc = "replied"
    /\ request(createReply).kind = "throw"
    /\ LET err == request(createReply) IN
       dlgError' = IF err.isError THEN err.message
                   ELSE "Failed to add repository"
    /\ showAddDialog' = FALSE
    /\ url' = <<>>
    /\ branch' = "main"
    /\ dlgIsLoading' = FALSE
    /\ dlgPc' = "idle"
    /\ createRequest' = None
    /\ createReply' = None
    /\ UNCHANGED <<showRepoDropdown, created>>
    /\ UNCHANGED <<chatVars, repoVars, graphVars, serverVars, settingsVars>>

\* AddRepoDialog.handleSubmit after the await, catch branch, then finally
AddRepoRejected ==
    /\ dlgPc = "replied"
    /\ request(createReply).kind = "throw"
    /\ LET err == request(createReply) IN
       dlgError' = IF err.isError THEN err.message
                   ELSE "Failed to add repository"
    /\ dlgIsLoading' = FALSE
    /\ dlgPc' = "idle"
    /\ createRequest' = None
    /\ createReply' = None
    /\ UNCHANGED <<showRepoDropdown, showAddDialog, url, branch, created>>
    /\ UNCHANGED <<chatVars, repoVars, graphVars, serverVars, settingsVars>>

---------------------------------------------------------------------------
(* The engine: extraction, relationship building and the graph store *)

\* the repositories the engine can index
RepoKeys == {"r1", "r2"}

\* no graph committed for a repository
NoGraph == [kind |-> "none"]

FilePaths == <<"a.py", "b.py", "c.py">>

\* file trees; a file that is not in the tree has the content "absent", a
\* file that does not parse has the content "bad"
TreeV1 == [path \in {"a.py", "b.py", "c.py"} |->
             CASE path = "a.py" -> "a1" [] path = "b.py" -> "b1"
               [] OTHER -> "absent"]
TreeV2 == [TreeV1 EXCEPT !["a.py"] = "a2"]
TreeV3 == [TreeV1 EXCEPT !["a.py"] = "bad"]
TreeV4 == [TreeV1 EXCEPT !["c.py"] = "c2"]
TreeC == [path \in {"a.py", "b.py", "c.py"} |->
            IF path = "c.py" THEN "c1" ELSE "absent"]
TreeBad == [path \in {"a.py", "b.py", "c.py"} |->
              IF path = "c.py" THEN "bad" ELSE "absent"]

\* the successive contents of each repository
TreesOf(repositoryId) ==
    IF repositoryId = "r1" THEN {TreeV1, TreeV2, TreeV3, TreeV4}
    ELSE {TreeC, TreeBad}

AllTrees == {TreeV1, TreeV2, TreeV3, TreeV4, TreeC, TreeBad}

\* the id of an entity: a hash of file path, qualified name and span, taken
\* to be free of collisions
EntityId(path, name, startLine, endLine) == <<path, name, startLine, endLine>>

Entity(type, name, path, startLine, endLine) ==
    [id |-> EntityId(path, name, startLine, endLine), type |-> type,
     name |-> name, file_path |-> path, start_line |-> startLine,
     end_line |-> endLine]

\* Extraction of one file: its entities, or a ParseError
Extract(path, content) ==
    CASE content = "a1" ->
           [ok |-> TRUE,
            entities |-> << Entity("module", "a", path, 1, 10),
                            Entity("function", "a.foo", path, 1, 5),
                            Entity("function", "a.bar", path, 7, 10) >>]
      [] content = "a2" ->
           [ok |-> TRUE,
            entities |-> << Entity("module", "a", path, 1, 12),
                            Entity("function", "a.foo", path, 1, 5),
                            Entity("function", "a.bar", path, 7, 12) >>]
      [] content = "b1" ->
           [ok |-> TRUE,
            entities |-> << Entity("module", "b", path, 1, 4),
                            Entity("function", "b.baz", path, 2, 3) >>]
      [] content = "c1" ->
           [ok |-> TRUE,
            entities |-> << Entity("module", "c", path, 1, 4),
                            Entity("class", "c.K", path, 1, 3),
                            Entity("method", "c.K.m", path, 2, 3) >>]
      [] content = "c2" ->
           [ok |-> TRUE,
            entities |-> << Entity("module", "c", path, 1, 4),
                            Entity("function", "c.qux", path, 2, 3) >>]
      [] content = "bad" -> [ok |-> FALSE, entities |-> <<>>]
      [] OTHER -> [ok |-> TRUE, entities |-> <<>>]

\* the references found in a file: the referring entity, the qualified name
\* referred to, and the kind of reference
References(content) ==
    CASE content \in {"a1", "a2"} ->
           << [from |-> "a.foo", to |-> "a.bar", type |-> "calls"] >>
      [] content = "b1" ->
           << [from |-> "b", to |-> "a", type |-> "imports"],
              [from |-> "b.baz", to |-> "a.foo", type |-> "calls"],
              [from |-> "b.baz", to |-> "b.baz", type |-> "calls"],
              [from |-> "b.baz", to |-> "print", type |-> "calls"] >>
      [] content = "c1" ->
           << [from |-> "c.K.m", to |-> "print", type |-> "calls"] >>
      [] content = "c2" ->
           << [from |-> "c.qux", to |-> "b.baz", type |-> "calls"] >>
      [] OTHER -> <<>>

\* the entities of the files that parse, in path order; a file that fails to
\* parse is skipped
RECURSIVE ExtractFrom(_, _)
ExtractFrom(tree, k) ==
    IF k > Len(FilePaths) THEN <<>>
    ELSE Extract(FilePaths[k], tree[FilePaths[k]]).entities
         \o ExtractFrom(tree, k + 1)

ExtractAll(tree) == ExtractFrom(tree, 1)

\* the files of the tree that failed to parse
ParseErrors(tree) ==
    { FilePaths[k] : k \in { j \in 1..Len(FilePaths) :
                               ~Extract(FilePaths[j], tree[FilePaths[j]]).ok } }

\* entity p encloses entity e
Encloses(p, e) ==
    /\ p.id # e.id
    /\ p.file_path = e.file_path
    /\ p.start_line <= e.start_line
    /\ e.end_line <= p.end_line
    /\ p.end_line - p.start_line > e.end_line - e.start_line

Range(seq) == { seq[k] : k \in 1..Len(seq) }

\* the smallest enclosing entities of e
Parents(entities, e) ==
    LET enclosing == { p \in Range(entities) : Encloses(p, e) } IN
    { p \in enclosing : \A q \in enclosing : ~Encloses(p, q) }

\* the contains edges: from the smallest enclosing entity to each entity
RECURSIVE ContainsFrom(_, _)
ContainsFrom(entities, k) ==
    IF k > Len(entities) THEN <<>>
    ELSE LET parents == Parents(entities, entities[k]) IN
         (IF parents = {} THEN <<>>
          ELSE << [source |-> (CHOOSE p \in parents : TRUE).id,
                   target |-> entities[k].id, type |-> "contains"] >>)
         \o ContainsFrom(entities, k + 1)

\* the id a reference resolves to; a name that no entity of the repository
\* bears resolves to an id that no entity has
Resolve(entities, name) ==
    IF \E e \in Range(entities) : e.name = name
    THEN (CHOOSE e \in Range(entities) : e.name = name).id
    ELSE EntityId("?", name, 0, 0)

\* the candidate edges of the references of the files from the k-th on
RECURSIVE ReferencesFrom(_, _, _)
ReferencesFrom(tree, entities, k) ==
    IF k > Len(FilePaths) THEN <<>>
    ELSE LET refs == IF Extract(FilePaths[k], tree[FilePaths[k]]).ok
                     THEN References(tree[FilePaths[k]]) ELSE <<>>
         IN [j \in 1..Len(refs) |->
               [source |-> Resolve(entities, refs[j].from),
                target |-> Resolve(entities, refs[j].to),
                type |-> refs[j].type]]
            \o ReferencesFrom(tree, entities, k + 1)

\* Relationship Builder: the candidate edges of a tree
CandidateEdges(tree) ==
    ContainsFrom(ExtractAll(tree), 1)
    \o ReferencesFrom(tree, ExtractAll(tree), 1)

NodeIds(entities) == { entities[k].id : k \in 1..Len(entities) }

\* upsert_repository_graph that stores the candidate edges as they are
upsert_repository_graph_Unchecked(entities, candidates) ==
    [kind |-> "graph", nodes |-> entities, edges |-> candidates]

\* upsert_repository_graph: the snapshot to commit; an edge whose source or
\* target is not an entity of the snapshot, and a self-loop, is dropped
upsert_repository_graph(entities, candidates) ==
    [kind |-> "graph",
     nodes |-> entities,
     edges |-> SelectSeq(candidates,
                         LAMBDA edge : /\ edge.source \in NodeIds(entities)
                                       /\ edge.target \in NodeIds(entities)
                                       /\ edge.source # edge.target)]

\* the snapshot an indexing run builds from a tree
Build(tree) == upsert_repository_graph(ExtractAll(tree), CandidateEdges(tree))

\* the snapshot of each tree
Snapshots == [tree \in AllTrees |-> Build(tree)]

\* no embedding index built for a repository
NoIndex == [kind |-> "none"]

\* Embedding Index of a snapshot: one record per entity, the embedded text
\* standing for its vector
EmbeddingsOf(graph) ==
    [kind |-> "index",
     records |-> [k \in 1..Len(graph.nodes) |->
                    [id |-> graph.nodes[k].id, text |-> graph.nodes[k].name]]]

\* the result of index(repository, file_tree): the counts of the snapshot and
\* the ParseErrors recorded, or IndexError when nothing could be extracted
IndexResult(tree) ==
    IF Snapshots[tree].nodes = <<>>
    THEN [kind |-> "IndexError", parse_errors |-> ParseErrors(tree)]
    ELSE [kind |-> "done", entity_count |-> Len(Snapshots[tree].nodes),
          edge_count |-> Len(Snapshots[tree].edges),
          parse_errors |-> ParseErrors(tree)]

\* IndexRun that gives up on the first file that fails to parse
IndexRun_AbortsOnParseError(repositoryId, tree, embedded) ==
    /\ IF Snapshots[tree].nodes = <<>> \/ ParseErrors(tree) # {}
       THEN /\ UNCHANGED <<graphStore, embeddingIndex>>
            /\ indexed' = [repository_id |-> repositoryId, tree |-> tree,
                           result |-> [kind |-> "IndexError",
                                       parse_errors |-> ParseErrors(tree)]]
       ELSE /\ graphStore' = [graphStore EXCEPT ![repositoryId] = Snapshots[tree]]
            /\ embeddingIndex' =
                 [embeddingIndex EXCEPT ![repositoryId] =
                    IF embedded THEN EmbeddingsOf(Snapshots[tree]) ELSE NoIndex]
            /\ indexed' = [repository_id |-> repositoryId, tree |-> tree,
                           result |-> IndexResult(tree)]
    /\ UNCHANGED <<lookup, run>>
    /\ UNCHANGED <<chatVars, repoVars, dlgVars, graphVars, settingsVars>>

\* index(repository, file_tree): a run that extracts nothing fails with
\* IndexError and leaves the store alone; otherwise the new snapshot replaces
\* the old one in one step, and with it the embedding index, which is absent
\* when the embedding of the run failed; the result of the run is recorded
IndexRun(repositoryId, tree, embedded) ==
    /\ IF Snapshots[tree].nodes = <<>>
       THEN UNCHANGED <<graphStore, embeddingIndex>>
       ELSE /\ graphStore' = [graphStore EXCEPT ![repositoryId] = Snapshots[tree]]
            /\ embeddingIndex' =
                 [embeddingIndex EXCEPT ![repositoryId] =
                    IF embedded THEN EmbeddingsOf(Snapshots[tree]) ELSE NoIndex]
    /\ indexed' = [repository_id |-> repositoryId, tree |-> tree,
                   result |-> IndexResult(tree)]
    /\ UNCHANGED <<lookup, run>>
    /\ UNCHANGED <<chatVars, repoVars, dlgVars, graphVars, settingsVars>>

\* the graph committed for a repository
GraphOf(repositoryId) ==
    IF repositoryId \in DOMAIN graphStore THEN graphStore[repositoryId]
    ELSE NoGraph

\* the nodes one hop from node id n in the given direction
Adjacent(graph, n, direction) ==
    { e.target : e \in { d \in Range(graph.edges) :
                           d.source = n /\ direction \in {"out", "both"} } }
    \cup { e.source : e \in { d \in Range(graph.edges) :
                                d.target = n /\ direction \in {"in", "both"} } }

\* neighbors without the visited set
NextFrontier_Revisits(graph, direction, visited, frontier) ==
    SelectSeq([k \in 1..Len(graph.nodes) |-> graph.nodes[k].id],
              LAMBDA id : \E f \in Range(frontier) :
                             id \in Adjacent(graph, f, direction))

\* the ids of sequence ids that are one hop from the frontier and not visited
NextFrontier(graph, direction, visited, frontier) ==
    SelectSeq([k \in 1..Len(graph.nodes) |-> graph.nodes[k].id],
              LAMBDA id : /\ id \notin Range(visited)
                          /\ \E f \in Range(frontier) :
                                id \in Adjacent(graph, f, direction))

\* breadth-first search with a visited set: the ids reached so far, then
\* depth more hops from the frontier
RECURSIVE Bfs(_, _, _, _, _)
Bfs(graph, direction, visited, frontier, depth) ==
    IF depth = 0 \/ frontier = <<>> THEN visited
    ELSE LET next == NextFrontier(graph, direction, visited, frontier) IN
         Bfs(graph, direction, visited \o next, next, depth - 1)

\* neighbors(id, all edge types, direction, depth), the node itself first
neighbors(graph, id, direction, depth) ==
    Bfs(graph, direction, <<id>>, <<id>>, depth)

\* the nodes of subgraph(node_ids)
SubgraphNodes(graph, ids) ==
    [k \in 1..Len(ids) |->
        CHOOSE node \in Range(graph.nodes) : node.id = ids[k]]

\* the edges of subgraph(node_ids): the induced edges
SubgraphEdges(graph, graphNodes) ==
    SelectSeq(graph.edges,
              LAMBDA edge : /\ edge.source \in NodeIds(graphNodes)
                            /\ edge.target \in NodeIds(graphNodes))

NotFoundReply ==
    [kind |-> "http", ok |-> FALSE, status |-> 404,
     body |-> [json |-> "object",
               detail |-> [type |-> "string", value |-> "Graph not found"]]]

\* the body of a get_graph reply
GraphData(graphNodes, graphEdges) ==
    [nodes |-> graphNodes, edges |-> graphEdges,
     stats |-> [nodes |-> Len(graphNodes), edges |-> Len(graphEdges)]]

SetFetch(i, f) == fetches' = [fetches EXCEPT ![i] = f]

\* get_graph, first half: pin the current snapshot and read its nodes
GetGraphReadNodes(i) ==
    /\ i \in 1..Len(fetches)
    /\ fetches[i].phase = "sent"
    /\ LET g == GraphOf(fetches[i].repository_id) IN
       IF g = NoGraph
       THEN SetFetch(i, [fetches[i] EXCEPT !.phase = "replied",
                                           !.reply = NotFoundReply])
       ELSE SetFetch(i, [fetches[i] EXCEPT !.phase = "reading",
                                           !.snapshot = g,
                                           !.nodes = g.nodes])
    /\ UNCHANGED <<route, nodes, edges, stats, graphIsLoading, graphError>>
    /\ UNCHANGED <<chatVars, repoVars, dlgVars, serverVars, settingsVars>>

\* get_graph, second half, reading the edges of whatever snapshot is current
GetGraphReadEdges_Unpinned(i) ==
    /\ i \in 1..Len(fetches)
    /\ fetches[i].phase = "reading"
    /\ SetFetch(i, [fetches[i] EXCEPT
            !.phase = "replied",
            !.snapshot = None,
            !.nodes = <<>>,
            !.reply = [kind |-> "http", ok |-> TRUE, status |-> 200,
                       body |-> [json |-> "object",
                                 data |-> GraphData(fetches[i].nodes,
                                     SubgraphEdges(
                                        GraphOf(fetches[i].repository_id),
                                        fetches[i].nodes))]]])
    /\ UNCHANGED <<route, nodes, edges, stats, graphIsLoading, graphError>>
    /\ UNCHANGED <<chatVars, repoVars, dlgVars, serverVars, settingsVars>>

\* get_graph, second half: read the edges of the pinned snapshot and reply
GetGraphReadEdges(i) ==
    /\ i \in 1..Len(fetches)
    /\ fetches[i].phase = "reading"
    /\ SetFetch(i, [fetches[i] EXCEPT
            !.phase = "replied",
            !.snapshot = None,
            !.nodes = <<>>,
            !.reply = [kind |-> "http", ok |-> TRUE, status |-> 200,
                       body |-> [json |-> "object",
                                 data |-> GraphData(fetches[i].nodes,
                                     SubgraphEdges(fetches[i].snapshot,
                                                   fetches[i].nodes))]]])
    /\ UNCHANGED <<route, nodes, edges, stats, graphIsLoading, graphError>>
    /\ UNCHANGED <<chatVars, repoVars, dlgVars, serverVars, settingsVars>>

\* the direction get_neighbors follows edges in
NeighborDirection == "both"

\* get_neighbors, first half: pin the current snapshot and read the nodes
\* within depth hops of the node; an earlier reply has been taken by then
GetNeighborsReadNodes(repositoryId, nodeId, depth) ==
    /\ IF lookup = None THEN TRUE ELSE lookup.phase = "replied"
    /\ LET g == GraphOf(repositoryId)
           l == [repository_id |-> repositoryId, node_id |-> nodeId,
                 depth |-> depth, phase |-> "replied", snapshot |-> None,
                 nodes |-> <<>>, reply |-> NotFoundReply]
       IN IF g = NoGraph \/ nodeId \notin NodeIds(g.nodes)
          THEN lookup' = l
          ELSE lookup' = [l EXCEPT
                  !.phase = "reading",
                  !.snapshot = g,
                  !.nodes = SubgraphNodes(g, neighbors(g, nodeId,
                                              NeighborDirection, depth)),
                  !.reply = None]
    /\ UNCHANGED <<graphStore, embeddingIndex, run, indexed>>
    /\ UNCHANGED <<chatVars, repoVars, dlgVars, graphVars, settingsVars>>

\* get_neighbors, second half: read the edges among those nodes in the
\* pinned snapshot and reply
GetNeighborsReadEdges ==
    /\ IF lookup = None THEN FALSE ELSE lookup.phase = "reading"
    /\ lookup' = [lookup EXCEPT
          !.phase = "replied",
          !.snapshot = None,
          !.nodes = <<>>,
          !.reply = [kind |-> "http", ok |-> TRUE, status |-> 200,
                     body |-> [json |-> "object",
                               data |-> [nodes |-> lookup.nodes,
                                         edges |-> SubgraphEdges(
                                                      lookup.snapshot,
                                                      lookup.nodes)]]]]
    /\ UNCHANGED <<graphStore, embeddingIndex, run, indexed>>
    /\ UNCHANGED <<chatVars, repoVars, dlgVars, graphVars, settingsVars>>

---------------------------------------------------------------------------
(* The engine: the reasoning loop and the answer composer.  Similarities,   *)
(* scores and confidence are in hundredths.                                 *)

MinRelevance == 30
HighConfidence == 90
LowConfidence == 20
EarlyStopPenalty == 80

\* no query being answered
Idle == [pc |-> "idle"]

\* what the user can ask: about foo, and about nothing in the code
Questions == { <<"f">>, <<"z">> }

\* cosine similarity of the question and the embedded text of an entity
Similarity(question, text) ==
    IF question = <<"f">>
    THEN CASE text = "a.foo" -> 95
           [] text = "a.bar" -> 60
           [] text = "b.baz" -> 50
           [] text = "c.qux" -> 45
           [] text = "a"     -> 40
           [] text = "c"     -> 35
           [] OTHER          -> 5
    ELSE 5

\* edge-type relevance weight
EdgeWeight(type) == IF type \in {"calls", "contains"} THEN 20 ELSE 10

Min(a, b) == IF a < b THEN a ELSE b

\* the entity of a snapshot with the given id
EntityOf(graph, id) == CHOOSE node \in Range(graph.nodes) : node.id = id

\* the order of entity ids: the position of the entity in its snapshot
Rank(graph, id) == CHOOSE k \in 1..Len(graph.nodes) : graph.nodes[k].id = id

\* similarity of the question and an entity, from the embedding index
SimilarityOf(r, id) ==
    Similarity(r.question,
               (CHOOSE rec \in Range(r.index.records) : rec.id = id).text)

\* the best k of a set of scored candidates, best first; equal scores go to
\* the smaller entity id
RECURSIVE TopK(_, _, _)
TopK(graph, candidates, k) ==
    IF k = 0 \/ candidates = {} THEN <<>>
    ELSE LET best == CHOOSE c \in candidates :
                        \A d \in candidates :
                           \/ c = d
                           \/ c.score > d.score
                           \/ /\ c.score = d.score
                              /\ Rank(graph, c.id) < Rank(graph, d.id)
         IN <<best>> \o TopK(graph, candidates \ {best}, k - 1)

\* the Citation derived from an entity; the source slice stands for itself
CitationOf(entity) ==
    [file_path |-> entity.file_path, start_line |-> entity.start_line,
     end_line |-> entity.end_line,
     content |-> <<entity.file_path, entity.start_line, entity.end_line>>,
     node_type |-> entity.type, node_name |-> entity.name]

\* the reasoning steps of the accepted candidates, numbered after n
StepsFor(accepted, n) ==
    [k \in 1..Len(accepted) |->
        [step_number |-> n + k, action |-> accepted[k].action,
         node_visited |-> accepted[k].id]]

\* ReadIds that reads every accepted candidate
ReadIds_NoThreshold(accepted) == [k \in 1..Len(accepted) |-> accepted[k].id]

\* the ids of the accepted candidates whose content is read: those that pass
\* the relevance threshold
ReadIds(accepted) ==
    LET relevant == SelectSeq(accepted, LAMBDA c : c.score >= MinRelevance) IN
    [k \in 1..Len(relevant) |-> relevant[k].id]

\* step 1: the top-W entities by similarity
Seeds(r) ==
    TopK(r.graph,
         { [id |-> rec.id, score |-> Similarity(r.question, rec.text),
            action |-> "seeded from similarity search"] :
              rec \in Range(r.index.records) },
         W)

\* the unvisited entities one hop from the frontier, each with the score of
\* its best edge
HopCandidates(r) ==
    LET reached ==
            { [id |-> e.target, type |-> e.type, from |-> e.source] :
                e \in { d \in Range(r.graph.edges) :
                          /\ d.source \in Range(r.frontier)
                          /\ d.target \notin Range(r.visited) } }
            \cup
            { [id |-> e.source, type |-> e.type, from |-> e.target] :
                e \in { d \in Range(r.graph.edges) :
                          /\ d.target \in Range(r.frontier)
                          /\ d.source \notin Range(r.visited) } }
        Score(c) == Min(100, SimilarityOf(r, c.id) + EdgeWeight(c.type))
        Best(id) ==
            CHOOSE c \in reached :
               /\ c.id = id
               /\ \A d \in reached :
                     d.id = id => \/ Score(c) > Score(d)
                                  \/ /\ Score(c) = Score(d)
                                     /\ \/ Rank(r.graph, c.from)
                                             < Rank(r.graph, d.from)
                                        \/ /\ c.from = d.from
                                           /\ (c.type = d.type
                                               \/ c.type = "calls")
    IN { [id |-> id, score |-> Score(Best(id)),
          action |-> "expanded via " \o Best(id).type \o " from "
                     \o EntityOf(r.graph, Best(id).from).name] :
           id \in { c.id : c \in reached } }

\* ShouldStop without the hop budget
ShouldStop_NoBudget(r) ==
    \/ r.frontier = <<>>
    \/ r.best < MinRelevance
    \/ /\ \E id \in Range(r.frontier) : SimilarityOf(r, id) >= HighConfidence
       /\ \A c \in HopCandidates(r) : c.score < MinRelevance

\* step 3: the loop stops when the frontier is empty or its best score is
\* below the relevance threshold, when the hop budget is exhausted, or when a
\* frontier item is a confident match and no candidate passes the threshold
ShouldStop(r) ==
    \/ r.frontier = <<>>
    \/ r.hops >= H
    \/ r.best < MinRelevance
    \/ /\ \E id \in Range(r.frontier) : SimilarityOf(r, id) >= HighConfidence
       /\ \A c \in HopCandidates(r) : c.score < MinRelevance

\* the body of the RepositoryNotReady failure
NotReadyReply ==
    [kind |-> "http", ok |-> FALSE, status |-> 409,
     body |-> [json |-> "object", detail |-> DetailText,
               reasoning_steps |-> <<>>]]

\* the body of a ProviderError failure, with the trace so far
ProviderErrorReply(steps) ==
    [kind |-> "http", ok |-> FALSE, status |-> 502,
     body |-> [json |-> "object", detail |-> DetailProv,
               reasoning_steps |-> steps]]

\* query(repository_id, question), up to the seeds: RepositoryNotReady when
\* the graph or the embedding index is absent; otherwise both are pinned and
\* the seeds are the first frontier
QueryStart ==
    /\ askPc = "awaiting"
    /\ run = Idle
    /\ LET id == askRequest.repository_id
           r0 == [pc |-> "expanding", question |-> askRequest.question,
                  graph |-> GraphOf(id),
                  index |-> IF id \in DOMAIN embeddingIndex
                            THEN embeddingIndex[id] ELSE NoIndex]
       IN IF r0.graph = NoGraph \/ r0.index = NoIndex
          THEN /\ askReply' = NotReadyReply
               /\ askPc' = "replied"
               /\ UNCHANGED run
          ELSE /\ LET seeds == Seeds(r0) IN
                  run' = [pc |-> "expanding", question |-> r0.question,
                          graph |-> r0.graph, index |-> r0.index,
                          frontier |-> [k \in 1..Len(seeds) |-> seeds[k].id],
                          visited |-> [k \in 1..Len(seeds) |-> seeds[k].id],
                          best |-> IF seeds = <<>> THEN 0 ELSE seeds[1].score,
                          steps |-> StepsFor(seeds, 0),
                          cited |-> ReadIds(seeds),
                          hops |-> 0, early |-> FALSE]
               /\ UNCHANGED <<askReply, askPc>>
    /\ UNCHANGED <<messages, isLoading, error, input, askRequest, nextId,
                   asked>>
    /\ UNCHANGED <<graphStore, lookup, embeddingIndex, indexed>>
    /\ UNCHANGED <<repoVars, dlgVars, graphVars, settingsVars>>

\* one hop: the top-W unvisited neighbours of the frontier become the next
\* frontier, each with a reasoning step, and a citation when it is read
QueryHop ==
    /\ IF run = Idle THEN FALSE ELSE run.pc = "expanding" /\ ~ShouldStop(run)
    /\ LET accepted == TopK(run.graph, HopCandidates(run), W)
           ids == [k \in 1..Len(accepted) |-> accepted[k].id]
       IN run' = [run EXCEPT
                    !.frontier = ids,
                    !.visited = run.visited \o ids,
                    !.best = IF accepted = <<>> THEN 0 ELSE accepted[1].score,
                    !.steps = run.steps \o StepsFor(accepted, Len(run.steps)),
                    !.cited = run.cited \o ReadIds(accepted),
                    !.hops = run.hops + 1]
    /\ UNCHANGED <<graphStore, lookup, embeddingIndex, indexed>>
    /\ UNCHANGED <<chatVars, repoVars, dlgVars, graphVars, settingsVars>>

\* the loop ends: a stop condition holds, or the overall timeout strikes at
\* this hop boundary
QueryStop ==
    /\ IF run = Idle THEN FALSE ELSE run.pc = "expanding"
    /\ run' = [run EXCEPT !.pc = "composing",
                          !.early = ~(run.frontier = <<>> \/ run.hops >= H)]
    /\ UNCHANGED <<graphStore, lookup, embeddingIndex, indexed>>
    /\ UNCHANGED <<chatVars, repoVars, dlgVars, graphVars, settingsVars>>

Sum(f) ==
    LET S[i \in 0..Len(f)] == IF i = 0 THEN 0 ELSE S[i - 1] + f[i]
    IN S[Len(f)]

EntityTypes == {"module", "class", "function", "method", "variable", "import"}

\* confidence: mean similarity of the cited entities, times the penalty of
\* an early stop, times the fraction of entity types touched, clamped
Confidence(r) ==
    IF r.cited = <<>> THEN 0
    ELSE LET mean == Sum([k \in 1..Len(r.cited) |->
                            SimilarityOf(r, r.cited[k])]) \div Len(r.cited)
             penalty == IF r.early THEN EarlyStopPenalty ELSE 100
             touched == { EntityOf(r.graph, id).type : id \in Range(r.cited) }
             coverage == (100 * Cardinality(touched))
                         \div Cardinality(EntityTypes)
             c == (mean * penalty * coverage) \div 10000
         IN IF c < 0 THEN 0 ELSE IF c > 100 THEN 100 ELSE c

\* Answer Composer: the evidence referred to by citation index, in
\* visitation order; without evidence, an answer that says so
Compose(r) ==
    [answer |-> IF r.cited = <<>> THEN <<"?">>
                ELSE [k \in 1..Len(r.cited) |-> ToString(k)],
     citations |-> [k \in 1..Len(r.cited) |->
                      CitationOf(EntityOf(r.graph, r.cited[k]))],
     reasoning_steps |-> r.steps,
     confidence |-> Confidence(r)]

\* the composer calls the text-completion capability and the query is
\* answered: with the response, or with ProviderError and the trace
QueryCompose(generated) ==
    /\ askPc = "awaiting"
    /\ IF run = Idle THEN FALSE ELSE run.pc = "composing"
    /\ askReply' =
         IF generated
         THEN [kind |-> "http", ok |-> TRUE, status |-> 200,
               body |-> [json |-> "object", data |-> Compose(run)]]
         ELSE ProviderErrorReply(run.steps)
    /\ askPc' = "replied"
    /\ run' = Idle
    /\ UNCHANGED <<messages, isLoading, error, input, askRequest, nextId,
                   asked>>
    /\ UNCHANGED <<graphStore, lookup, embeddingIndex, indexed>>
    /\ UNCHANGED <<repoVars, dlgVars, graphVars, settingsVars>>

---------------------------------------------------------------------------
(* components/GraphView.tsx: the continuations of fetchGraph, and the routes *)

RemoveAt(seq, i) == SubSeq(seq, 1, i - 1) \o SubSeq(seq, i + 1, Len(seq))

\* FetchGraphResolved without setEdges and setStats
FetchGraphResolved_NodesOnly(i) ==
    /\ i \in 1..Len(fetches)
    /\ fetches[i].phase = "replied"
    /\ request(fetches[i].reply).kind = "return"
    /\ LET graphData == request(fetches[i].reply).data
           rf == transformToReactFlow(graphData)
       IN nodes' = rf.nodes
    /\ graphIsLoading' = FALSE
    /\ fetches' = RemoveAt(fetches, i)
    /\ UNCHANGED <<route, graphError, edges, stats>>
    /\ UNCHANGED <<chatVars, repoVars, dlgVars, serverVars, settingsVars>>

\* fetchGraph after the await, try branch, then finally
FetchGraphResolved(i) ==
    /\ i \in 1..Len(fetches)
    /\ fetches[i].phase = "replied"
    /\ request(fetches[i].reply).kind = "return"
    /\ LET graphData == request(fetches[i].reply).data
           rf == transformToReactFlow(graphData)
       IN /\ nodes' = rf.nodes
          /\ edges' = rf.edges
          /\ stats' = IF "stats" \in DOMAIN graphData THEN graphData.stats
                      ELSE [nodes |-> Len(graphData.nodes),
                            edges |-> Len(graphData.edges)]
    /\ graphIsLoading' = FALSE
    /\ fetches' = RemoveAt(fetches, i)
    /\ UNCHANGED <<route, graphError>>
    /\ UNCHANGED <<chatVars, repoVars, dlgVars, serverVars, settingsVars>>

\* fetchGraph after the await, catch branch, then finally
FetchGraphRejected(i) ==
    /\ i \in 1..Len(fetches)
    /\ fetches[i].phase = "replied"
    /\ request(fetches[i].reply).kind = "throw"
    /\ LET err == request(fetches[i].reply) IN
       graphError' = IF err.isError THEN err.message
                     ELSE "Failed to load graph"
    /\ graphIsLoading' = FALSE
    /\ fetches' = RemoveAt(fetches, i)
    /\ UNCHANGED <<route, nodes, edges, stats>>
    /\ UNCHANGED <<chatVars, repoVars, dlgVars, serverVars, settingsVars>>

\* the Retry button, shown with the error of a ready repository
RetryFetch ==
    /\ route = "/graph"
    /\ selectedRepo # NullRepo
    /\ selectedRepo.status = "ready"
    /\ graphError # Null
    /\ fetchGraph(selectedRepo)
    /\ UNCHANGED <<route, chatVars, repoVars, dlgVars, serverVars, settingsVars>>

Routes == {"/chat", "/graph", "/settings"}

---------------------------------------------------------------------------
(* stores/settingsStore.ts and SettingsView (components/ChatView.tsx) *)

PROVIDERS ==
    << [id |-> "openai", name |-> "OpenAI",
        models |-> <<"gpt-4-turbo-preview", "gpt-4", "gpt-3.5-turbo">>],
       [id |-> "anthropic", name |-> "Anthropic",
        models |-> <<"claude-3-opus-20240229", "claude-3-sonnet-20240229",
                     "claude-3-haiku-20240307">>],
       [id |-> "groq", name |-> "Groq",
        models |-> <<"mixtral-8x7b-32768", "llama2-70b-4096">>] >>

\* availableProviders.includes(id)
Includes(seq, x) == \E i \in 1..Len(seq) : seq[i] = x

\* the replies to GET /health: no reply, an error, a body without
\* providers, and bodies naming some of the providers
HealthReplies ==
    { [kind |-> "network"],
      [kind |-> "http", ok |-> FALSE, status |-> 503,
       body |-> [json |-> "object", detail |-> Undefined,
                 reasoning_steps |-> <<>>]],
      [kind |-> "http", ok |-> TRUE, status |-> 200,
       body |-> [json |-> "object", data |-> [status |-> "ok"]]] }
    \cup { [kind |-> "http", ok |-> TRUE, status |-> 200,
            body |-> [json |-> "object",
                      data |-> [status |-> "ok", providers |-> ps]]] :
             ps \in { <<"openai">>, <<"anthropic">>,
                      <<"openai", "anthropic">>,
                      <<"openai", "anthropic", "groq">> } }

\* checkHealth after the await: try or catch branch, then finally
CheckHealthSettled(reply) ==
    /\ route = "/settings"
    /\ healthPc = "awaiting"
    /\ LET r == request(reply) IN
       availableProviders' =
          IF r.kind = "return"
          THEN IF "providers" \in DOMAIN r.data THEN r.data.providers
               ELSE <<>>
          ELSE availableProviders
    /\ settingsIsLoading' = FALSE
    /\ healthPc' = "idle"
    /\ UNCHANGED <<provider, model>>
    /\ UNCHANGED <<chatVars, repoVars, dlgVars, graphVars, serverVars>>

\* the button of provider PROVIDERS[k]: isAvailable && setProvider(p.id)
SetProvider(k) ==
    /\ route = "/settings"
    /\ Includes(availableProviders, PROVIDERS[k].id)
    /\ provider' = PROVIDERS[k].id
    /\ UNCHANGED <<model, availableProviders, settingsIsLoading, healthPc>>
    /\ UNCHANGED <<chatVars, repoVars, dlgVars, graphVars, serverVars>>

\* the model select, shown under the selected provider PROVIDERS[k] with
\* its models as options: setModel(e.target.value)
SetModel(k, j) ==
    /\ route = "/settings"
    /\ provider = PROVIDERS[k].id
    /\ j \in 1..Len(PROVIDERS[k].models)
    /\ model' = PROVIDERS[k].models[j]
    /\ UNCHANGED <<provider, availableProviders, settingsIsLoading, healthPc>>
    /\ UNCHANGED <<chatVars, repoVars, dlgVars, graphVars, serverVars>>

\* a navigation link of the sidebar: the view of the old route is unmounted
\* and loses its local state (the replies to its pending requests are then
\* ignored), the view of the new route is mounted and runs its effects
Navigate(to) ==
    /\ to # route
    /\ route' = to
    /\ input' = IF route = "/chat" THEN <<>> ELSE input
    /\ IF to = "/graph" THEN fetchGraph(selectedRepo)
       ELSE IF route = "/graph"
       THEN /\ nodes' = <<>>
            /\ edges' = <<>>
            /\ stats' = EmptyStats
            /\ graphIsLoading' = FALSE
            /\ graphError' = Null
            /\ fetches' = <<>>
       ELSE UNCHANGED <<nodes, edges, stats, graphIsLoading, graphError,
                        fetches>>
    /\ IF to = "/settings"
       THEN /\ availableProviders' = <<>>
            /\ settingsIsLoading' = TRUE
            /\ healthPc' = "awaiting"
       ELSE IF route = "/settings"
       THEN /\ availableProviders' = <<>>
            /\ settingsIsLoading' = TRUE
            /\ healthPc' = "idle"
       ELSE UNCHANGED <<availableProviders, settingsIsLoading, healthPc>>
    /\ UNCHANGED <<provider, model>>
    /\ UNCHANGED <<messages, isLoading, error, askPc, askRequest, askReply,
                   nextId, asked>>
    /\ UNCHANGED <<repoVars, dlgVars, serverVars>>

---------------------------------------------------------------------------
(* The client as a whole *)

Init ==
    /\ messages = <<>>
    /\ isLoading = FALSE
    /\ error = Null
    /\ input = <<>>
    /\ askPc = "idle"
    /\ askRequest = None
    /\ askReply = None
    /\ nextId = 1
    /\ asked = 0
    /\ repositories = <<>>
    /\ selectedRepo = NullRepo
    /\ showRepoDropdown = FALSE
    /\ showAddDialog = FALSE
    /\ url = <<>>
    /\ branch = "main"
    /\ dlgIsLoading = FALSE
    /\ dlgError = Null
    /\ dlgPc = "idle"
    /\ createRequest = None
    /\ createReply = None
    /\ created = 0
    /\ route = "/chat"
    /\ nodes = <<>>
    /\ edges = <<>>
    /\ stats = EmptyStats
    /\ graphIsLoading = FALSE
    /\ graphError = Null
    /\ fetches = <<>>
    /\ graphStore = [id \in RepoKeys |-> NoGraph]
    /\ lookup = None
    /\ embeddingIndex = [id \in RepoKeys |-> NoIndex]
    /\ run = Idle
    /\ indexed = None
    /\ provider = "openai"
    /\ model = "gpt-4-turbo-preview"
    /\ availableProviders = <<>>
    /\ settingsIsLoading = TRUE
    /\ healthPc = "idle"

RepoNext ==
    \/ ToggleRepoDropdown
    \/ \E i \in 1..MaxCreates : SelectRepoClick(i)
    \/ OpenAddDialog
    \/ CloseAddDialog
    \/ \E u \in Urls : SetUrl(u)
    \/ \E b \in Branches : SetBranch(b)
    \/ AddRepoSubmitBlank
    \/ AddRepoSubmit
    \/ CreateReply
    \/ AddRepoResolved
    \/ AddRepoRejected

ChatNext ==
    \/ \E v \in Inputs : SetInput(v)
    \/ HandleSubmit
    \/ \E r \in QueryReplies : QueryReply(r)
    \/ AskResolved
    \/ AskRejected

\* the repository store as the chat sees it
StoreNext ==
    \/ \E repo \in Repositories : AddRepository(repo)
    \/ \E repo \in Repositories \cup {NullRepo} : SelectRepo(repo)

\* the chat, with the repository store changing under it
Next == ChatNext \/ StoreNext

Spec == Init /\ [][Next]_vars

\* the sidebar and the add-repository dialog
SpecRepo == Init /\ [][RepoNext]_vars

\* the operations of the repository store, in any order
RepoStoreNext ==
    \/ \E repos \in RepositoryLists : SetRepositories(repos)
    \/ \E repo \in Repositories : AddRepository(repo)
    \/ \E id \in {"r1", "r2"} : \E updates \in Updates :
          UpdateRepository(id, updates)
    \/ \E id \in {"r1", "r2"} : RemoveRepository(id)
    \/ \E i \in 1..MaxRepos : SelectListed(i)

SpecRepoStore == Init /\ [][RepoStoreNext]_vars

\* the type of the i-th of n nodes in the graphs GraphView is answered with:
\* all of one type, the first or the last of another, or types in turn
LayoutPatterns == {"same", "first", "last", "turns"}
TypeAt(pattern, i, n) ==
    CASE pattern = "same"  -> "module"
      [] pattern = "first" -> IF i = 1 THEN "function" ELSE "module"
      [] pattern = "last"  -> IF i = n THEN "function" ELSE "module"
      [] OTHER             -> <<"class", "module", "function">>[(i % 3) + 1]

\* graph data of up to MaxNodes nodes, without edges or with an edge from
\* each node to the next, and without stats
LayoutGraphs ==
    { [nodes |-> [i \in 1..n |->
                    [id |-> "n" \o ToString(i),
                     type |-> TypeAt(pattern, i, n),
                     name |-> "n"]],
       edges |-> IF chained /\ n > 1
                 THEN [i \in 1..(n - 1) |->
                         [source |-> "n" \o ToString(i),
                          target |-> "n" \o ToString(i + 1),
                          type |-> IF i % 2 = 1 THEN "calls"
                                   ELSE "contains"]]
                 ELSE <<>>] :
        n \in 0..MaxNodes, pattern \in LayoutPatterns, chained \in BOOLEAN }

\* GET /graph/<id> answered by an API GraphView knows nothing about: any
\* graph data, or an error
GraphReply(i, reply) ==
    /\ i \in 1..Len(fetches)
    /\ fetches[i].phase = "sent"
    /\ SetFetch(i, [fetches[i] EXCEPT !.phase = "replied", !.reply = reply])
    /\ UNCHANGED <<route, nodes, edges, stats, graphIsLoading, graphError>>
    /\ UNCHANGED <<chatVars, repoVars, dlgVars, serverVars, settingsVars>>

\* GraphView laying out whatever graph it is answered with, the requests
\* answered one at a time in the order they were sent
LayoutNext ==
    \/ \E to \in {"/chat", "/graph"} : Navigate(to)
    \/ \E repo \in {r \in Repositories : r.id = "r1"} \cup {NullRepo} :
          SelectRepo(repo)
    \/ \E graphData \in LayoutGraphs :
          GraphReply(1, [kind |-> "http", ok |-> TRUE, status |-> 200,
                         body |-> [json |-> "object", data |-> graphData]])
    \/ GraphReply(1, NotFoundReply)
    \/ FetchGraphResolved(1)
    \/ FetchGraphRejected(1)

SpecLayout == Init /\ [][LayoutNext]_vars

\* SettingsView: the health check and the selections of provider and model
SettingsNext ==
    \/ \E to \in Routes : Navigate(to)
    \/ \E reply \in HealthReplies : CheckHealthSettled(reply)
    \/ \E k \in 1..Len(PROVIDERS) : SetProvider(k)
    \/ \E k \in 1..Len(PROVIDERS) : \E j \in 1..Len(PROVIDERS[k].models) :
          SetModel(k, j)

SpecSettings == Init /\ [][SettingsNext]_vars

\* the entity a.foo, the same in both versions of a.py
FooId == EntityId("a.py", "a.foo", 1, 5)

\* the repositories GraphView is shown: r1 ready, r2 before and after indexing
GraphRepositories ==
    Repositories
    \cup { [id |-> "r2", url |-> <<"v">>, branch |-> "dev", status |-> "ready"] }

GraphNext ==
    \/ \E to \in Routes : Navigate(to)
    \/ \E repo \in GraphRepositories \cup {NullRepo} : SelectRepo(repo)
    \/ \E tree \in {TreeV1, TreeV2} : IndexRun("r1", tree, TRUE)
    \/ GetNeighborsReadNodes("r1", FooId, 1)
    \/ GetNeighborsReadEdges
    \/ \E i \in 1..MaxFetches : GetGraphReadNodes(i)
    \/ \E i \in 1..MaxFetches : GetGraphReadEdges(i)
    \/ \E i \in 1..MaxFetches : FetchGraphResolved(i)
    \/ \E i \in 1..MaxFetches : FetchGraphRejected(i)
    \/ RetryFetch

\* the trees of r1 the engine is shown at work on: the first, the one with
\* a file that does not parse and the one with a third file
EngineTrees == {TreeV1, TreeV3, TreeV4}

\* the chat over the engine: the user selects repository r1 and asks, while
\* indexing runs go on
EngineNext ==
    \/ \E repo \in {r \in Repositories : r.id = "r1"} : SelectRepo(repo)
    \/ \E v \in Questions : SetInput(v)
    \/ HandleSubmit
    \/ \E tree \in EngineTrees : \E embedded \in BOOLEAN :
          IndexRun("r1", tree, embedded)
    \/ QueryStart
    \/ QueryHop
    \/ QueryStop
    \/ \E generated \in BOOLEAN : QueryCompose(generated)
    \/ AskResolved
    \/ AskRejected

SpecEngine == Init /\ [][EngineNext]_vars

\* the reasoning loop: the user asks about repository r1, whose embedding
\* index is built by every indexing run
LoopNext ==
    \/ \E repo \in {r \in Repositories : r.id = "r1"} : SelectRepo(repo)
    \/ \E v \in Questions : SetInput(v)
    \/ HandleSubmit
    \/ \E tree \in EngineTrees : IndexRun("r1", tree, TRUE)
    \/ QueryStart
    \/ QueryHop
    \/ QueryStop
    \/ \E generated \in BOOLEAN : QueryCompose(generated)
    \/ AskResolved
    \/ AskRejected

\* the engine goes on with the loop of a query it has begun: by leaving the
\* loop, or by another hop
LiveEngine == Init /\ [][LoopNext]_vars /\ WF_vars(QueryStop \/ QueryHop)

\* an id that no entity has
UnknownId == EntityId("?", "?", 0, 0)

\* the node ids a lookup can ask for
LookupIds ==
    UNION { NodeIds(Snapshots[tree].nodes) : tree \in AllTrees } \cup {UnknownId}

\* the graph store on its own: indexing runs of both repositories, and
\* get_neighbors lookups of any node to any depth
GraphStoreNext ==
    \/ \E id \in RepoKeys : \E tree \in TreesOf(id) : IndexRun(id, tree, TRUE)
    \/ \E id \in RepoKeys : \E n \in LookupIds : \E depth \in 0..MaxDepth :
          GetNeighborsReadNodes(id, n, depth)
    \/ GetNeighborsReadEdges

SpecGraphStore == Init /\ [][GraphStoreNext]_vars

\* GraphView over the graph store, with indexing runs going on
SpecGraph == Init /\ [][GraphNext]_vars

\* both repositories, indexed and ready
ReadyRepositories ==
    { [id |-> "r1", url |-> <<"u">>, branch |-> "main", status |-> "ready"],
      [id |-> "r2", url |-> <<"v">>, branch |-> "dev", status |-> "ready"] }

\* GraphView while the user goes from one indexed repository to the other
\* and the status of the repositories changes
SwitchNext ==
    \/ \E to \in {"/chat", "/graph"} : Navigate(to)
    \/ \E repo \in ReadyRepositories \cup {NullRepo} : SelectRepo(repo)
    \/ \E id \in RepoKeys : \E s \in Statuses :
          UpdateRepository(id, [status |-> s])
    \/ IndexRun("r1", TreeV1, TRUE)
    \/ IndexRun("r2", TreeC, TRUE)
    \/ \E i \in 1..MaxFetches : GetGraphReadNodes(i)
    \/ \E i \in 1..MaxFetches : GetGraphReadEdges(i)
    \/ \E i \in 1..MaxFetches : FetchGraphResolved(i)
    \/ \E i \in 1..MaxFetches : FetchGraphRejected(i)
    \/ RetryFetch

SpecGraphSwitch == Init /\ [][SwitchNext]_vars

\* the chat under a server that answers every query (the engine's hop budget
\* and overall timeout) and a runtime that resumes a settled await
LiveSpec ==
    /\ Spec
    /\ WF_vars(\E r \in QueryReplies : QueryReply(r))
    /\ WF_vars(AskResolved)
    /\ WF_vars(AskRejected)

---------------------------------------------------------------------------
(* Properties of the chat *)

Last(s) == s[Len(s)]

\* the steps of handleSubmit, recognised by what they do to askPc
SubmitAccepted == askPc = "idle" /\ askPc' = "awaiting"
AskResolves ==
    askPc = "replied" /\ askPc' = "idle" /\ request(askReply).kind = "return"
AskRejects ==
    askPc = "replied" /\ askPc' = "idle" /\ request(askReply).kind = "throw"

\* a non-2xx reply
ErrorReply(r) == r.kind = "http" /\ ~r.ok

\* the reasoning steps a failed reply reports as completed
StepsCompleted(r) ==
    IF ErrorReply(r) /\ r.body.json = "object" THEN r.body.reasoning_steps
    ELSE <<>>

\* C1: when the ask of a query rejects, the reasoning steps completed before
\* the failure are shown on the assistant message of that query, together
\* with the error message.
C1_FailedQueryKeepsTrace ==
    [][AskRejects =>
         /\ error' # Null
         /\ ReasoningStepCards(Last(messages')) = StepsCompleted(askReply)]_vars

---------------------------------------------------------------------------
(* Properties of the engine's responses *)

\* the entities of all snapshots
AllEntities == UNION { Range(Snapshots[tree].nodes) : tree \in AllTrees }

\* citation c is derived from an entity that some step of steps visited
Grounded(c, steps) ==
    \E j \in 1..Len(steps) :
       \E entity \in AllEntities :
          /\ "node_visited" \in DOMAIN steps[j]
          /\ entity.id = steps[j].node_visited
          /\ c = CitationOf(entity)

\* a reply with a QueryResponse
OkReply(reply) ==
    IF reply = None THEN FALSE
    ELSE reply.kind = "http" /\ reply.ok /\ reply.body.json = "object"

\* C2: no orphan citations: every citation of a query response the client
\* receives, and of the assistant message it is stored in, is derived from
\* an entity that a reasoning step of the same response visited.
C2_NoOrphanCitations ==
    /\ OkReply(askReply) =>
          \A k \in 1..Len(askReply.body.data.citations) :
             Grounded(askReply.body.data.citations[k],
                      askReply.body.data.reasoning_steps)
    /\ \A i \in 1..Len(messages) :
          "citations" \in DOMAIN messages[i] =>
             \A k \in 1..Len(messages[i].citations) :
                Grounded(messages[i].citations[k],
                         ReasoningStepCards(messages[i]))

C2_Witness ==
    /\ messages # <<>>
    /\ "citations" \in DOMAIN Last(messages)
    /\ Len(Last(messages).citations) >= 2
    /\ Len(Last(messages).reasoning_steps) > Len(Last(messages).citations)

\* C3: after a successful response with citations c1..cn the assistant
\* message holds exactly c1..cn in that order, and the card labelled [k]
\* shows ck.
C3_CitationCardsInOrder ==
    [][AskResolves =>
         LET resp  == request(askReply).data
             m     == Last(messages')
             cards == CitationCards(m)
         IN /\ "citations" \in DOMAIN m
            /\ m.citations = resp.citations
            /\ Len(cards) = Len(resp.citations)
            /\ \A k \in 1..Len(resp.citations) :
                  /\ cards[k].index = k
                  /\ cards[k].citation = resp.citations[k]]_vars

C3_Witness ==
    /\ askPc = "idle"
    /\ messages # <<>>
    /\ "citations" \in DOMAIN Last(messages)
    /\ Last(messages).citations = <<Citation2, Citation1>>
    /\ CitationCards(Last(messages))[2] = [index |-> 2, citation |-> Citation1]

\* C4: a response with zero citations is written to the assistant message
\* like any successful response: its answer becomes the content, the
\* citation list is the (empty) list of the response, error stays null and
\* isLoading is false again.
C4_UncitedAnswerIsSuccess ==
    [][AskResolves =>
         LET resp == request(askReply).data
             m    == Last(messages')
         IN /\ m.role = "assistant"
            /\ m.content = resp.answer
            /\ "citations" \in DOMAIN m
            /\ m.citations = resp.citations
            /\ (resp.citations = <<>> => CitationCards(m) = <<>>)
            /\ error' = Null
            /\ isLoading' = FALSE]_vars

C4_Witness ==
    /\ askPc = "idle"
    /\ messages # <<>>
    /\ Last(messages).role = "assistant"
    /\ Last(messages).content = <<"n">>
    /\ "citations" \in DOMAIN Last(messages)
    /\ Last(messages).citations = <<>>
    /\ error = Null
    /\ ~isLoading

ApiErrorMessage(r) == "API error: " \o ToString(r.status)

\* the error body has a `detail` member
DetailPresent(r) ==
    r.body.json = "object" /\ r.body.detail.type # "undefined"

ErrorMessageOf(r) ==
    CASE r.body.json = "invalid" -> ApiErrorMessage(r)
      [] r.body.json = "object"  ->
           IF r.body.detail.type = "string" /\ r.body.detail.value # ""
           THEN r.body.detail.value
           ELSE IF r.body.detail.type = "array" THEN "[object Object]"
           ELSE ApiErrorMessage(r)

C6_RetryAfterFailure ==
    /\ []((askPc = "idle" /\ error # Null) =>
            /\ ~isLoading
            /\ (Trim(input) # <<>> /\ selectedRepo # NullRepo
                  => ~SubmitIgnored))
    /\ [][(error # Null /\ SubmitAccepted) =>
            /\ error' = Null
            /\ isLoading'
            /\ askRequest' = [kind |-> "ask",
                              repository_id |-> selectedRepo.id,
                              question |-> Trim(input)]]_vars

C6_Witness ==
    /\ asked = 2
    /\ askPc = "awaiting"
    /\ Len(messages) = 4
    /\ "citations" \notin DOMAIN messages[2]
    /\ error = Null
    /\ isLoading

C8_FailedQueryFrame ==
    [][/\ SubmitAccepted =>
            /\ Len(messages') = Len(messages) + 2
            /\ SubSeq(messages', 1, Len(messages)) = messages
            /\ messages'[Len(messages) + 1].role = "user"
            /\ messages'[Len(messages) + 2].role = "assistant"
            /\ repositories' = repositories
            /\ selectedRepo' = selectedRepo
       /\ AskRejects =>
            /\ messages' = messages
            /\ repositories' = repositories
            /\ selectedRepo' = selectedRepo
            /\ input' = input]_vars

C8_Witness ==
    /\ askPc = "idle"
    /\ error # Null
    /\ Len(messages) = 4
    /\ "citations" \in DOMAIN messages[2]
    /\ messages[2].citations = <<Citation1, Citation2>>
    /\ "citations" \notin DOMAIN messages[4]
    /\ selectedRepo # NullRepo

---------------------------------------------------------------------------
(* Properties of the graph store and of GraphView *)

\* the snapshots a repository can have
SnapshotsOf(repositoryId) ==
    { Snapshots[tree] : tree \in { t \in TreesOf(repositoryId) :
                                     Snapshots[t].nodes # <<>> } }

AllSnapshots == UNION { SnapshotsOf(id) : id \in RepoKeys }

\* what GraphView holds after a get_graph response with the whole of g
ViewOf(g) ==
    [nodes |-> transformToReactFlow(GraphData(g.nodes, g.edges)).nodes,
     edges |-> transformToReactFlow(GraphData(g.nodes, g.edges)).edges,
     stats |-> GraphData(g.nodes, g.edges).stats]

\* what GraphView can hold: nothing yet, or the whole of one snapshot
Views ==
    { [nodes |-> <<>>, edges |-> <<>>, stats |-> EmptyStats] }
    \cup { ViewOf(g) : g \in AllSnapshots }

\* the get_graph results of a repository, one for each snapshot
GraphResults ==
    [id \in RepoKeys |-> { GraphData(g.nodes, g.edges) : g \in SnapshotsOf(id) }]

\* the get_neighbors result for a lookup answered from snapshot g
NeighborsOf(g, l) ==
    LET found == SubgraphNodes(g, neighbors(g, l.node_id, NeighborDirection,
                                            l.depth))
    IN [nodes |-> found, edges |-> SubgraphEdges(g, found)]

\* C9: every get_graph and get_neighbors result is made of the nodes and
\* edges of one snapshot of the repository, also when the graph was replaced
\* during the read; and the nodes, edges and stats GraphView holds are those
\* of one get_graph response (or the initial empty ones).
C9_ReadsSeeOneSnapshot ==
    /\ \A i \in 1..Len(fetches) :
          OkReply(fetches[i].reply) =>
             fetches[i].reply.body.data \in GraphResults[fetches[i].repository_id]
    /\ (lookup # None /\ OkReply(lookup.reply)) =>
          \E g \in SnapshotsOf(lookup.repository_id) :
             /\ lookup.node_id \in NodeIds(g.nodes)
             /\ lookup.reply.body.data = NeighborsOf(g, lookup)
    /\ [nodes |-> nodes, edges |-> edges, stats |-> stats] \in Views

\* GraphView shows the old snapshot of r1, a newer one has been committed,
\* and a read that began before the swap is still in progress
C9_Witness ==
    /\ graphStore["r1"] # NoGraph
    /\ nodes # <<>>
    /\ nodes # ViewOf(graphStore["r1"]).nodes
    /\ \E i \in 1..Len(fetches) :
          /\ fetches[i].phase = "reading"
          /\ fetches[i].snapshot # graphStore["r1"]
    /\ IF lookup = None THEN FALSE
       ELSE lookup.phase = "reading" /\ lookup.snapshot # graphStore["r1"]

\* both ends of every edge of edgeSeq are ids of nodes of nodeSeq
EdgesResolve(nodeSeq, edgeSeq) ==
    \A k \in 1..Len(edgeSeq) :
       /\ edgeSeq[k].source \in NodeIds(nodeSeq)
       /\ edgeSeq[k].target \in NodeIds(nodeSeq)

\* C10: in every committed snapshot and in every graph handed to the client
\* both ends of every edge are nodes of the same graph, the dangling
\* candidates having been dropped when the snapshot was built; and
\* transformToReactFlow renders every edge it receives, so that the edges
\* GraphView holds all join nodes it holds.
C10_ReferentialIntegrity ==
    /\ \A id \in RepoKeys :
          graphStore[id] # NoGraph =>
             EdgesResolve(graphStore[id].nodes, graphStore[id].edges)
    /\ \A i \in 1..Len(fetches) :
          OkReply(fetches[i].reply) =>
             LET graphData == fetches[i].reply.body.data
                 rf == transformToReactFlow(graphData)
             IN /\ EdgesResolve(graphData.nodes, graphData.edges)
                /\ Len(rf.edges) = Len(graphData.edges)
                /\ \A k \in 1..Len(rf.edges) :
                      /\ rf.edges[k].source = graphData.edges[k].source
                      /\ rf.edges[k].target = graphData.edges[k].target
    /\ (lookup # None /\ OkReply(lookup.reply)) =>
          EdgesResolve(lookup.reply.body.data.nodes,
                       lookup.reply.body.data.edges)
    /\ EdgesResolve(nodes, edges)

\* GraphView shows the graph of a tree some of whose candidate edges had a
\* missing end and were dropped
C10_Witness ==
    /\ edges # <<>>
    /\ \E tree \in TreesOf("r1") :
          /\ graphStore["r1"] = Snapshots[tree]
          /\ edges = ViewOf(Snapshots[tree]).edges
          /\ ~EdgesResolve(ExtractAll(tree), CandidateEdges(tree))
          /\ Len(CandidateEdges(tree)) > Len(edges)

---------------------------------------------------------------------------
(* Properties of neighbor lookup *)

Ids(nodeSeq) == [k \in 1..Len(nodeSeq) |-> nodeSeq[k].id]

NoDuplicates(seq) == \A i, j \in 1..Len(seq) : seq[i] = seq[j] => i = j

IsPrefix(a, b) == Len(a) <= Len(b) /\ SubSeq(b, 1, Len(a)) = a

\* the ids within k hops of id, by paths in either direction
RECURSIVE Within(_, _, _)
Within(graph, id, k) ==
    IF k = 0 THEN {id}
    ELSE LET prev == Within(graph, id, k - 1) IN
         prev \cup UNION { Adjacent(graph, n, NeighborDirection) : n \in prev }

\* C11: a neighbor lookup with depth 0 returns exactly the queried node and
\* no edges; a lookup with depth k returns each node within k hops exactly
\* once, the queried node first and the nodes found at a smaller depth
\* before those of a larger one, also when the graph has cycles.
C11_NeighborLookup ==
    /\ (lookup # None /\ lookup.phase = "reading") =>
          LET g   == lookup.snapshot
              ids == Ids(lookup.nodes)
          IN /\ NoDuplicates(ids)
             /\ ids[1] = lookup.node_id
             /\ Range(ids) = Within(g, lookup.node_id, lookup.depth)
             /\ Len(ids) <= Len(g.nodes)
             /\ \A d \in 0..(lookup.depth - 1) :
                   /\ IsPrefix(neighbors(g, lookup.node_id, NeighborDirection,
                                         d), ids)
                   /\ \A k \in 1..Len(ids) :
                         ids[k] \in Within(g, lookup.node_id, d) =>
                            k <= Cardinality(Within(g, lookup.node_id, d))
    /\ (lookup # None /\ OkReply(lookup.reply)) =>
          LET data == lookup.reply.body.data IN
          /\ NoDuplicates(Ids(data.nodes))
          /\ Ids(data.nodes)[1] = lookup.node_id
          /\ lookup.depth = 0 =>
                /\ Ids(data.nodes) = <<lookup.node_id>>
                /\ data.edges = <<>>

\* a lookup to depth 2 answered from a graph in which the nodes found lie on
\* a cycle (there are at least as many edges among them as nodes)
C11_Witness ==
    /\ lookup # None
    /\ OkReply(lookup.reply)
    /\ lookup.depth = 2
    /\ Len(lookup.reply.body.data.nodes) >= 5
    /\ Len(lookup.reply.body.data.edges) >= Len(lookup.reply.body.data.nodes)

---------------------------------------------------------------------------
(* Properties of the engine's queries *)

\* the repository cannot be queried: its graph or its embedding index is
\* absent
NotReady(repositoryId) ==
    graphStore[repositoryId] = NoGraph \/ embeddingIndex[repositoryId] = NoIndex

\* the engine takes its first step on the pending query
QueryBegins ==
    askPc = "awaiting" /\ run = Idle /\ (askPc' # askPc \/ run' # run)

\* C12: a query of a repository whose graph or embedding index is absent is
\* refused with RepositoryNotReady at its first step, with no reasoning step
\* and no citation, while a query of a ready repository is not refused; and
\* after that failure the assistant placeholder of the query still has empty
\* content, no reasoning steps and no citations, and the chat error is set.
C12_NotReadyBeforeAnyStep ==
    /\ [][(QueryBegins /\ NotReady(askRequest.repository_id)) =>
             /\ run' = Idle
             /\ askPc' = "replied"
             /\ ErrorReply(askReply')
             /\ askReply' = NotReadyReply
             /\ StepsCompleted(askReply') = <<>>
             /\ "data" \notin DOMAIN askReply'.body]_vars
    /\ [][(QueryBegins /\ ~NotReady(askRequest.repository_id)) =>
             /\ askPc' = "awaiting"
             /\ run'.steps # <<>>]_vars
    /\ [][(AskRejects /\ askReply = NotReadyReply) =>
             LET m == Last(messages') IN
             /\ m.role = "assistant"
             /\ m.content = <<>>
             /\ "reasoning_steps" \notin DOMAIN m
             /\ "citations" \notin DOMAIN m
             /\ ReasoningStepCards(m) = <<>>
             /\ CitationCards(m) = <<>>
             /\ error' = DetailText.value]_vars

\* the query of a repository whose graph is committed but whose embedding
\* index was never built has failed
C12_Witness ==
    /\ askPc = "idle"
    /\ error = DetailText.value
    /\ graphStore["r1"] # NoGraph
    /\ embeddingIndex["r1"] = NoIndex
    /\ messages # <<>>
    /\ Last(messages).content = <<>>
    /\ "reasoning_steps" \notin DOMAIN Last(messages)

\* the composer answers the query with a response
Composes == run.pc = "composing" /\ OkReply(askReply')

\* no entity of the snapshot the query is pinned to is similar enough to the
\* question to pass the relevance threshold
NothingRelevant(r) ==
    \A id \in NodeIds(r.graph.nodes) : SimilarityOf(r, id) < MinRelevance

\* C13: the confidence of every query response lies between 0 and 1 (0 and
\* 100 hundredths), and the response to a question to which no entity is
\* relevant has a confidence below the low threshold and no citation.
C13_ConfidenceInRange ==
    /\ [](OkReply(askReply) => askReply.body.data.confidence \in 0..100)
    /\ [][Composes =>
             LET data == askReply'.body.data IN
             /\ data.confidence \in 0..100
             /\ NothingRelevant(run) =>
                   /\ data.confidence < LowConfidence
                   /\ data.citations = <<>>]_vars

\* a question about nothing in the code has been answered: the seeds were
\* visited and none was read
C13_Witness ==
    /\ OkReply(askReply)
    /\ askRequest.question = <<"z">>
    /\ askReply.body.data.confidence < LowConfidence
    /\ askReply.body.data.citations = <<>>
    /\ askReply.body.data.reasoning_steps # <<>>

\* the steps are numbered from 1, each with a larger number than the one
\* before it
Numbered(steps) ==
    /\ steps # <<>> => steps[1].step_number = 1
    /\ \A k \in 1..(Len(steps) - 1) :
          steps[k].step_number < steps[k + 1].step_number

\* the reasoning steps a reply carries
ReplySteps(reply) ==
    IF OkReply(reply) THEN reply.body.data.reasoning_steps
    ELSE IF reply = None THEN <<>> ELSE StepsCompleted(reply)

\* C14: the reasoning steps of a query, as the engine accumulates them, as
\* a reply carries them and as a message shows them, are numbered from 1
\* with increasing step_number; the message of a successful query holds the
\* steps of the response in response order, and the card of each step is
\* labelled with the step_number of that step.
C14_StepsNumbered ==
    /\ [](/\ Numbered(IF run = Idle THEN <<>> ELSE run.steps)
          /\ Numbered(ReplySteps(askReply))
          /\ \A i \in 1..Len(messages) :
                Numbered(ReasoningStepCards(messages[i])))
    /\ [][AskResolves =>
             LET resp  == request(askReply).data
                 cards == ReasoningStepCards(Last(messages'))
             IN /\ Last(messages').reasoning_steps = resp.reasoning_steps
                /\ Len(cards) = Len(resp.reasoning_steps)
                /\ \A k \in 1..Len(cards) :
                      /\ ReasoningStepCard(cards[k]).label =
                            "Step "
                            \o ToString(resp.reasoning_steps[k].step_number)
                            \o ":"
                      /\ ReasoningStepCard(cards[k]).action =
                            resp.reasoning_steps[k].action]_vars

\* a message shows the steps of a search that went beyond the seeds
C14_Witness ==
    /\ askPc = "idle"
    /\ messages # <<>>
    /\ Len(ReasoningStepCards(Last(messages))) > W
    /\ ReasoningStepCard(ReasoningStepCards(Last(messages))[W + 1]).label
          = "Step " \o ToString(W + 1) \o ":"

---------------------------------------------------------------------------
(* Properties of entity ids *)

\* the rendered nodes are the nodes of graphNodes, each under its own id
RendersEach(rendered, graphNodes) ==
    /\ Len(rendered) = Len(graphNodes)
    /\ Range(Ids(rendered)) = Range(Ids(graphNodes))
    /\ \A k \in 1..Len(rendered) : rendered[k].id = rendered[k].data.id

\* C15: no two nodes of a committed snapshot, of a get_graph or
\* get_neighbors result, or of the nodes transformToReactFlow renders from a
\* result, share an id; each rendered node has the id of the node it shows.
C15_UniqueIds ==
    /\ \A id \in RepoKeys :
          graphStore[id] # NoGraph => NoDuplicates(Ids(graphStore[id].nodes))
    /\ \A i \in 1..Len(fetches) :
          OkReply(fetches[i].reply) =>
             LET graphData == fetches[i].reply.body.data
                 rf == transformToReactFlow(graphData)
             IN /\ NoDuplicates(Ids(graphData.nodes))
                /\ NoDuplicates(Ids(rf.nodes))
                /\ RendersEach(rf.nodes, graphData.nodes)
    /\ (lookup # None /\ OkReply(lookup.reply)) =>
          NoDuplicates(Ids(lookup.reply.body.data.nodes))
    /\ NoDuplicates(Ids(nodes))
    /\ \A k \in 1..Len(nodes) : nodes[k].id = nodes[k].data.id

\* GraphView shows a graph with nodes of two types, laid out in two groups,
\* and a lookup has been answered
C15_Witness ==
    /\ Len(nodes) >= 5
    /\ Cardinality({ nodes[k].data.type : k \in 1..Len(nodes) }) >= 2
    /\ \E i, j \in 1..Len(nodes) :
          /\ i # j
          /\ nodes[i].position.x = nodes[j].position.x
    /\ lookup # None
    /\ OkReply(lookup.reply)
    /\ Len(lookup.reply.body.data.nodes) >= 2

---------------------------------------------------------------------------
(* Properties of the reasoning loop *)

\* the loop of the query takes another hop
Hops == run.pc = "expanding" /\ run'.pc = "expanding" /\ run' # run

\* C16: the reasoning loop starts from at most W seeds, takes at most H
\* hops, and in each hop accepts at most W entities, none of which was
\* visited before, so that no entity is visited twice; after H hops no
\* further hop is possible, the loop can always be left, and it is left.
C16_BoundedLoop ==
    /\ [](run # Idle =>
            /\ run.hops \in 0..H
            /\ Len(run.frontier) <= W
            /\ Len(run.visited) <= W * (run.hops + 1)
            /\ NoDuplicates(run.visited)
            /\ Range(run.frontier) \subseteq Range(run.visited)
            /\ Len(run.steps) = Len(run.visited))
    /\ []((run.pc = "expanding" /\ run.hops >= H) => ~ENABLED QueryHop)
    /\ [](run.pc = "expanding" => ENABLED QueryStop)
    /\ [][(QueryBegins /\ run' # Idle) =>
             /\ run'.hops = 0
             /\ Len(run'.frontier) <= W
             /\ run'.visited = run'.frontier]_vars
    /\ [][Hops =>
             /\ run.hops < H
             /\ run'.hops = run.hops + 1
             /\ Len(run'.frontier) <= W
             /\ Range(run'.frontier) \cap Range(run.visited) = {}
             /\ run'.visited = run.visited \o run'.frontier]_vars
    /\ (run.pc = "expanding") ~> (run.pc # "expanding")

\* the loop has used up its hop budget with a full frontier, while an
\* entity that passes the relevance threshold is still one hop away
C16_Witness ==
    /\ run.pc = "expanding"
    /\ run.hops = H
    /\ Len(run.frontier) = W
    /\ run.best >= MinRelevance
    /\ \E c \in HopCandidates(run) : c.score >= MinRelevance

---------------------------------------------------------------------------
(* Properties of indexing *)

\* the files of a tree that cannot be parsed
BadFiles(tree) == { path \in Range(FilePaths) : tree[path] = "bad" }

\* the entities of the files of a tree that can be parsed
GoodEntities(tree) ==
    UNION { Range(Extract(path, tree[path]).entities) :
              path \in Range(FilePaths) \ BadFiles(tree) }

\* C17: an indexing run records one ParseError for each file that fails to
\* parse and for no other; when some other file yields entities the run
\* completes, and the committed snapshot holds the entities of every file
\* that parses, and only those.
C17_BadFileSkipped ==
    indexed # None =>
       LET tree   == indexed.tree
           result == indexed.result
           g      == graphStore[indexed.repository_id]
       IN /\ result.parse_errors = BadFiles(tree)
          /\ GoodEntities(tree) # {} =>
                /\ result.kind = "done"
                /\ g # NoGraph
                /\ Range(g.nodes) = GoodEntities(tree)
                /\ result.entity_count = Cardinality(GoodEntities(tree))
                /\ result.edge_count = Len(g.edges)

\* the run on the tree in which a.py fails to parse has completed with the
\* entities of b.py and one ParseError
C17_Witness ==
    /\ indexed # None
    /\ indexed.tree = TreeV3
    /\ indexed.result.kind = "done"
    /\ indexed.result.parse_errors = {"a.py"}
    /\ Cardinality(indexed.result.parse_errors) = 1
    /\ graphStore["r1"].nodes = Extract("b.py", "b1").entities
    /\ indexed.result.entity_count = 2

---------------------------------------------------------------------------
(* Properties of the chat's message list *)

\* a step that appends a message or sends a query
SubmitTakesEffect ==
    \/ Len(messages') # Len(messages)
    \/ asked' # asked
    \/ (askRequest' # askRequest /\ askRequest' # None)

\* C18: a submit has an effect only when the input is not blank, a
\* repository is selected and no query is in flight; while a submit would be
\* ignored and no completion is due, no step changes messages, error,
\* isLoading or the request sent; and isLoading is true exactly from the
\* accepted submit to the completion of its query, so that at most one
\* query is in flight.
C18_OneQueryInFlight ==
    /\ [](isLoading <=> askPc \in {"awaiting", "replied"})
    /\ [](isLoading <=> askRequest # None)
    /\ [][SubmitTakesEffect =>
             /\ ~SubmitIgnored
             /\ Trim(input) # <<>>
             /\ ~isLoading
             /\ selectedRepo # NullRepo
             /\ askPc = "idle"
             /\ askRequest = None
             /\ isLoading'
             /\ asked' = asked + 1
             /\ Len(messages') = Len(messages) + 2]_vars
    /\ [][(SubmitIgnored /\ askPc # "replied") =>
             UNCHANGED <<messages, error, isLoading, askRequest, asked>>]_vars

\* a second question has been typed while the first query is in flight:
\* only isLoading keeps the submit from being accepted
C18_Witness ==
    /\ isLoading
    /\ askPc = "awaiting"
    /\ asked = 1
    /\ Len(messages) = 2
    /\ Trim(input) # <<>>
    /\ selectedRepo # NullRepo

\* user and assistant messages take turns, a user message first
Alternates(msgs) ==
    \A i \in 1..Len(msgs) :
       msgs[i].role = IF i % 2 = 1 THEN "user" ELSE "assistant"

\* C19: the messages are an even number of messages in which user and
\* assistant take turns, a user message first; an accepted submit appends
\* one user message with the trimmed question and after it one assistant
\* message with empty content, and leaves the earlier messages as they
\* were; no other step changes the length of the list or the role or id of
\* a message.
C19_MessagesAlternate ==
    /\ [](Len(messages) % 2 = 0 /\ Alternates(messages))
    /\ [][SubmitAccepted =>
             LET n == Len(messages) IN
             /\ Len(messages') = n + 2
             /\ SubSeq(messages', 1, n) = messages
             /\ messages'[n + 1].role = "user"
             /\ messages'[n + 1].content = Trim(input)
             /\ messages'[n + 2].role = "assistant"
             /\ messages'[n + 2].content = <<>>
             /\ "citations" \notin DOMAIN messages'[n + 2]
             /\ messages'[n + 1].id # messages'[n + 2].id]_vars
    /\ [][~SubmitAccepted =>
             /\ Len(messages') = Len(messages)
             /\ \A i \in 1..Len(messages) :
                   /\ messages'[i].role = messages[i].role
                   /\ messages'[i].id = messages[i].id]_vars

\* two questions have been asked, typed with blanks around them; the first
\* was answered and the second failed
C19_Witness ==
    /\ askPc = "idle"
    /\ Len(messages) = 4
    /\ messages[1].content = <<"a">>
    /\ messages[3].content = <<"a">>
    /\ "citations" \in DOMAIN messages[2]
    /\ messages[4].content = <<>>
    /\ error # Null

\* what updateLastAssistantMessage(response) does to the list msgs, and what
\* it leaves alone
UpdateFrame(msgs, response) ==
    LET out == updateLastAssistantMessage(msgs, response)
        n   == Len(msgs)
    IN /\ Len(out) = n
       /\ \A i \in 1..(n - 1) : out[i] = msgs[i]
       /\ IF n > 0 /\ msgs[n].role = "assistant"
          THEN /\ out[n].content = response.answer
               /\ out[n].citations = response.citations
               /\ out[n].reasoning_steps = response.reasoning_steps
               /\ out[n].id = msgs[n].id
               /\ out[n].role = msgs[n].role
               /\ out[n].timestamp = msgs[n].timestamp
               /\ DOMAIN out[n] = DOMAIN msgs[n] \cup {"content", "citations",
                                                        "reasoning_steps"}
          ELSE out = msgs

\* C20: applied to the message list at any point of a submit (the list, or
\* the list up to any of its messages), updateLastAssistantMessage replaces
\* content, citations and reasoning_steps of the last message when that is
\* an assistant message and keeps its id, role and timestamp, changes no
\* other message and not the length, and changes nothing when the list is
\* empty or ends with a user message; and the response of a query is written
\* to the placeholder that the submit of that query appended, and to no
\* other message.
C20_UpdateFrame ==
    /\ [](\A k \in 0..Len(messages) :
            \A response \in QueryResponses :
               UpdateFrame(SubSeq(messages, 1, k), response))
    /\ [][AskResolves =>
             LET n    == Len(messages)
                 resp == request(askReply).data
             IN /\ n >= 2
                /\ messages[n].role = "assistant"
                /\ messages[n].content = <<>>
                /\ messages[n].id = nextId - 1
                /\ messages[n - 1].id = nextId - 2
                /\ messages[n - 1].content = askRequest.question
                /\ messages' = updateLastAssistantMessage(messages, resp)
                /\ messages'[n].content = resp.answer
                /\ messages'[n].id = messages[n].id
                /\ \A i \in 1..(n - 1) : messages'[i] = messages[i]]_vars

\* the second query has been answered; the placeholder of the first, which
\* failed, is as it was
C20_Witness ==
    /\ askPc = "idle"
    /\ Len(messages) = 4
    /\ "citations" \in DOMAIN messages[4]
    /\ messages[4].content # <<>>
    /\ messages[4].id = 4
    /\ "citations" \notin DOMAIN messages[2]
    /\ messages[2].content = <<>>

---------------------------------------------------------------------------
(* Properties of the repository store *)

\* the selection is an entry of the list, field by field
Listed(selected, repos) ==
    \E i \in 1..Len(repos) : repos[i] = selected

\* C21: after any sequence of setRepositories, addRepository,
\* updateRepository, removeRepository and selectRepo of a listed repository,
\* selectedRepo is null or equal, id and fields, to an entry of repositories
C21_SelectionInList ==
    selectedRepo = NullRepo \/ Listed(selectedRepo, repositories)

---------------------------------------------------------------------------
(* Properties of the add-repository dialog *)

\* the steps of AddRepoDialog.handleSubmit, recognised by what they do to
\* dlgPc
CreateSent == dlgPc = "idle" /\ dlgPc' = "awaiting"
CreateResolves ==
    dlgPc = "replied" /\ dlgPc' = "idle" /\ createReply.kind = "http"
    /\ createReply.ok
CreateRejects ==
    dlgPc = "replied" /\ dlgPc' = "idle"
    /\ (createReply.kind = "network" \/ ~createReply.ok)

\* the message of the failure a reply to POST /repositories stands for
CreateFailureMessage(r) ==
    IF r.kind = "network" THEN FetchFailedMessage ELSE ErrorMessageOf(r)

\* C22: adding a repository is all-or-nothing. A successful create appends
\* the returned repository once, selects it, closes the dialog and resets url
\* and branch; a failed one leaves repositories and selectedRepo as they
\* were, does not close the dialog and puts the failure message in its
\* error; both set the dialog's isLoading to false; the list changes in no
\* other step, and a request is only sent for a url that is not blank
C22_AddAllOrNothing ==
    [][ /\ CreateResolves =>
            /\ repositories' = Append(repositories, createReply.body.data)
            /\ selectedRepo' = createReply.body.data
            /\ ~showAddDialog'
            /\ url' = <<>>
            /\ branch' = "main"
            /\ ~dlgIsLoading'
        /\ CreateRejects =>
            /\ UNCHANGED <<repositories, selectedRepo>>
            /\ showAddDialog' = showAddDialog
            /\ UNCHANGED <<url, branch>>
            /\ dlgError' = CreateFailureMessage(createReply)
            /\ ~dlgIsLoading'
        /\ (repositories' # repositories) => CreateResolves
        /\ CreateSent => (Trim(url) # <<>> /\ createRequest'.url = url)
        /\ (Trim(url) = <<>>) => (created' = created /\ ~CreateSent)
      ]_vars

\* a create has failed with the dialog open and one repository already
\* added and selected, after a blank url was refused
C22_Witness ==
    /\ dlgError # Null
    /\ showAddDialog
    /\ ~dlgIsLoading
    /\ Len(repositories) = 1
    /\ selectedRepo = repositories[1]
    /\ created = 2

---------------------------------------------------------------------------
(* Properties of GraphView under a changing selection *)

\* what GraphView holds after a get_graph response for the repository
ViewsOf ==
    [id \in RepoKeys |-> { ViewOf(g) : g \in SnapshotsOf(id) }]

\* GraphView shows a graph: a ready repository is selected, the last load
\* did not fail and the graph is not the initial empty one
ShowsGraph ==
    /\ route = "/graph"
    /\ selectedRepo # NullRepo
    /\ selectedRepo.status = "ready"
    /\ graphError = Null
    /\ nodes # <<>>

\* C23: with no graph request in flight, the graph GraphView shows is one
\* returned for the selected repository, whatever the order in which
\* overlapping requests completed; and isLoading is true as long as a
\* request is pending
C23_GraphOfSelectedRepo ==
    /\ (fetches = <<>> /\ ShowsGraph) =>
          [nodes |-> nodes, edges |-> edges, stats |-> stats]
             \in ViewsOf[selectedRepo.id]
    /\ (fetches # <<>>) => graphIsLoading

\* the first half of C23 alone (its violation is the overwrite by the
\* response for the repository selected before)
C23_NoStaleGraph ==
    (fetches = <<>> /\ ShowsGraph) =>
        [nodes |-> nodes, edges |-> edges, stats |-> stats]
           \in ViewsOf[selectedRepo.id]

\* a get_graph request leaves GraphView
GraphRequested ==
    /\ Len(fetches') = Len(fetches) + 1
    /\ Last(fetches').phase = "sent"

\* a selection GraphView asks the graph of
ReadySelection(repo) == repo # NullRepo /\ repo.status = "ready"

\* C24: GraphView sends a get_graph request only for a selected repository
\* whose status is ready, and for that repository; with no selection or any
\* other status it sends none and renders no graph; and a mounted GraphView
\* sends one each time the selected repository changes to a ready one
C24_OnlyReadyIsRequested ==
    /\ [](~ReadySelection(selectedRepo) =>
             GraphViewRender(selectedRepo).view # "graph")
    /\ [][ /\ GraphRequested =>
               /\ route' = "/graph"
               /\ ReadySelection(selectedRepo')
               /\ Last(fetches').repository_id = selectedRepo'.id
           /\ ~ReadySelection(selectedRepo') => ~GraphRequested
           /\ ( /\ route = "/graph"
                /\ route' = "/graph"
                /\ selectedRepo' # selectedRepo
                /\ ReadySelection(selectedRepo') ) => GraphRequested
         ]_vars

\* GraphView holds a graph, a request is pending, and the selected
\* repository is not ready: the request was sent while it was
C24_Witness ==
    /\ route = "/graph"
    /\ selectedRepo # NullRepo
    /\ selectedRepo.status = "indexing"
    /\ fetches # <<>>
    /\ nodes # <<>>
    /\ GraphViewRender(selectedRepo).view = "waiting"

---------------------------------------------------------------------------
(* Properties of the settings *)

\* the models PROVIDERS lists for the provider
ModelsOf(id) ==
    UNION { { PROVIDERS[k].models[j] : j \in 1..Len(PROVIDERS[k].models) } :
              k \in { i \in 1..Len(PROVIDERS) : PROVIDERS[i].id = id } }

\* a provider is selected only by a step that finds it in the providers
\* the health check reported
ProviderWasAvailable ==
    (provider' # provider) => Includes(availableProviders, provider')

\* the second half of C25 alone
C25_ProviderWasAvailable == [][ProviderWasAvailable]_vars

\* C25: after any sequence of provider and model selections from the
\* defaults, the selected model is one of the models PROVIDERS lists for the
\* selected provider, and a provider is only selected when the health check
\* reported it available
C25_ModelOfSelectedProvider ==
    /\ [](model \in ModelsOf(provider))
    /\ [][ProviderWasAvailable]_vars

---------------------------------------------------------------------------
(* Properties of the layout *)

\* how often x is in seq
Occurrences(seq, x) == Cardinality({ i \in 1..Len(seq) : seq[i] = x })

\* the place of a node in the input
InputIndex(given, node) == CHOOSE i \in 1..Len(given) : given[i] = node

\* the index of the i-th input node among the input nodes of its type
IndexInGroup(given, i) ==
    Cardinality({ j \in 1..(i - 1) : given[j].type = given[i].type })

\* the first input node of the type
FirstOfType(given, type) ==
    CHOOSE i \in 1..Len(given) :
        /\ given[i].type = type
        /\ \A j \in 1..(i - 1) : given[j].type # type

\* the rendered nodes rn and edges re are a layout of the graph data: as
\* many nodes, each input node rendered as often as it is given and under
\* its id; every edge in its place with its source and target and the id
\* e-<index>; every node in the column and row of its index within its type;
\* the blocks of the types one strictly below the other in the order the
\* types first appear; and no position taken twice
LaidOut(graphData, rn, re) ==
    LET given == graphData.nodes
        rendered == [k \in 1..Len(rn) |-> rn[k].data]
        idx == [k \in 1..Len(rn) |->
                  IndexInGroup(given, InputIndex(given, rn[k].data))]
        block == [k \in 1..Len(rn) |->
                    rn[k].position.y - (idx[k] \div 4) * 120]
        first == [k \in 1..Len(rn) |-> FirstOfType(given, rn[k].data.type)]
    IN
    /\ Len(rn) = Len(given)
    /\ \A k \in 1..Len(rn) : rn[k].id = rn[k].data.id
    /\ \A i \in 1..Len(given) :
          Occurrences(rendered, given[i]) = Occurrences(given, given[i])
    /\ Len(re) = Len(graphData.edges)
    /\ \A k \in 1..Len(re) :
          /\ re[k].source = graphData.edges[k].source
          /\ re[k].target = graphData.edges[k].target
          /\ re[k].id = "e-" \o ToString(k - 1)
    /\ \A k1, k2 \in 1..Len(re) : (k1 # k2) => (re[k1].id # re[k2].id)
    /\ \A k \in 1..Len(rn) :
          /\ rn[k].position.x = (idx[k] % 4) * 250
          /\ block[k] >= 0
    /\ \A k1, k2 \in 1..Len(rn) :
          /\ (rn[k1].data.type = rn[k2].data.type) => (block[k1] = block[k2])
          /\ (first[k1] < first[k2])
             => (/\ rn[k1].position.y < rn[k2].position.y
                 /\ block[k1] < block[k2])
          /\ (k1 # k2) => (rn[k1].position # rn[k2].position)

\* C26: transformToReactFlow keeps count and identity and its layout has no
\* collision: what GraphView holds after a get_graph response is a layout of
\* the graph data of the response
C26_LayoutCollisionFree ==
    [][ ( /\ route = "/graph"
          /\ route' = "/graph"
          /\ fetches # <<>>
          /\ fetches[1].phase = "replied"
          /\ OkReply(fetches[1].reply)
          /\ fetches' = RemoveAt(fetches, 1) )
        => LaidOut(fetches[1].reply.body.data, nodes', edges') ]_vars

\* GraphView holds a graph of MaxNodes nodes whose first type fills more
\* than one row and whose second type starts a block under it, with edges
C26_Witness ==
    /\ Len(nodes) = MaxNodes
    /\ Len(edges) = MaxNodes - 1
    /\ \E k \in 1..Len(nodes) : nodes[k].position = [x |-> 0, y |-> 120]
    /\ \E k \in 1..Len(nodes) : nodes[k].position = [x |-> 0, y |-> 320]
    /\ nodes[MaxNodes].data.type = "function"

=============================================================================
